---- MODULE Spec2Model ----
(***************************************************************************)
(* Starfield screensaver: the three variants of the repository,            *)
(*   "gdi"   src/Starfield/Starfield.cpp  (GDI backbuffer),                *)
(*   "res"   src/unnamed/part_000         (Direct2D, resource dialog),     *)
(*   "clamp" src/unnamed/part_001         (Direct2D, clamped star size).   *)
(*                                                                         *)
(* Numbers.  Floats are carried as scaled integers:                        *)
(*   gdi depth z        numerator over 2^24 (every float in [2, 64) is on  *)
(*                      this grid; F32 rounds to 24 significant bits)      *)
(*   Direct2D depth z   numerator over ZDen                                *)
(*   base, tw, colours  thousandths;  phase, angles: milliradians          *)
(*   time               ticks of the performance counter, PerfFreq a second*)
(***************************************************************************)
EXTENDS Integers, Sequences, FiniteSets, TLC

VARIABLES
    variant,            \* which of the three programs runs
    runMode,            \* "full" (RunFull) or "preview" (RunPreview)
    pc,                 \* position of the frame loop
    ri,                 \* index of the next g_windows entry to render
    clock,              \* QueryPerformanceCounter, in ticks
    last, dt, total,    \* locals of RunFull / RunPreview
    msg,                \* the MSG last retrieved by PeekMessageW (message, pt)
    g_running, quitPosted,
    g_startCounter, g_startMouse, g_startMouseInit,
    cursor, fgOurs,     \* GetCursorPos, ForegroundIsOurWindow
    dpi,                \* what ID2D1RenderTarget::GetDpi reports
    g_windows,          \* RunFull: one RenderWindow per monitor
    pv_rw,              \* RunPreview: its RenderWindow rw (NULL before it exists)
    monitorsLeft,       \* monitors EnumDisplayMonitors still has to report
    g_starCount, g_speed, g_twinklePercent, g_color,
    registry,           \* the values under REG_KEY in HKEY_CURRENT_USER
    dlg,                \* the settings window and its controls
    proc                \* wWinMain: its command line, locals and calls so far

cfgVars == <<variant, runMode, dpi, g_starCount, g_speed, g_twinklePercent, g_color>>

envVars == <<cursor, fgOurs>>

loopVars == <<last, dt, total, ri>>

uiVars == <<registry, dlg>>

inputVars == <<g_running, quitPosted, g_startCounter, g_startMouse, g_startMouseInit>>

vars == <<variant, runMode, pc, ri, clock, last, dt, total, msg, g_running,
          quitPosted, g_startCounter, g_startMouse, g_startMouseInit, cursor,
          fgOurs, dpi, g_windows, pv_rw, monitorsLeft,
          g_starCount, g_speed, g_twinklePercent, g_color, registry, dlg, proc>>

Variants == {"gdi", "res", "clamp"}

D2D(v) == v \in {"res", "clamp"}

\* a null pointer / handle
NULL == [null |-> TRUE]

\* a brush, with the render target that made it: "cur" the one rw->rt is
\* now, "stale" one that has been released
Brush(of) == [rt |-> of]

(***************************************************************************)
(* Bounds of the model.                                                    *)
(***************************************************************************)
MaxStars == 2

MaxMonitors == 1

MaxClock == 161

MaxSeed == 1

(***************************************************************************)
(* Arithmetic helpers.                                                     *)
(***************************************************************************)
max(a, b) == IF a > b THEN a ELSE b

min(a, b) == IF a < b THEN a ELSE b

abs(a) == IF a < 0 THEN -a ELSE a

\* C++ integer division truncates toward zero
CDiv(a, b) == IF a >= 0 THEN a \div b ELSE -((-a) \div b)

\* lroundf of num/den, den > 0: halves away from zero
lroundf(num, den) ==
    IF num >= 0 THEN (2 * num + den) \div (2 * den)
    ELSE -((2 * (-num) + den) \div (2 * den))

\* ceilf of num/den, den > 0
ceilf(num, den) == -((-num) \div den)

TwoP24 == 2^24

RECURSIVE Ulp24(_, _)
\* spacing, in units of 2^-24, of the floats around n * 2^-24
Ulp24(n, q) == IF n \div q < TwoP24 THEN q ELSE Ulp24(n, 2 * q)

\* round-to-nearest, ties to even, of n on the grid of spacing q; lo is the
\* grid point at or below n
RoundEven(n, q, lo) ==
    IF 2 * (n - lo) < q THEN lo
    ELSE IF 2 * (n - lo) > q THEN lo + q
    ELSE IF (lo \div q) % 2 = 0 THEN lo ELSE lo + q

F32Q(n, q) == RoundEven(n, q, (n \div q) * q)

\* IEEE-754 binary32 round-to-nearest-even of n * 2^-24, n >= 0
F32(n) == F32Q(n, Ulp24(n, 1))

(***************************************************************************)
(* Program constants.                                                      *)
(***************************************************************************)
ZUnit == TwoP24

Z_MIN == 2 * ZUnit

Z_MAX == 33 * ZUnit

FOCAL == 9

SIZE_SCALE == 1

BUCKETS == 6

\* ticks per second (g_perfFreq); a power of two keeps dt a dyadic float
PerfFreq == 2^6

\* Direct2D depths: numerators over ZDen, so that 0.5f * speed * dt is
\* g_speed * ticks exactly
ZDen == 2 * 100 * PerfFreq

NearD2D == (5 * ZDen) \div 100

FarD2D == ZDen

g_starBase == 1000

g_starSizeMultiplier == 1000

g_starMin == 500

g_starMax == 8000

g_mouseMoveThreshold == 12

\* g_inputDebounceSeconds, in hundredths of a second
g_inputDebounceSeconds(v) == IF v = "gdi" THEN 66 ELSE 250

near(v) == IF v = "gdi" THEN Z_MIN ELSE NearD2D

far(v) == IF v = "gdi" THEN Z_MAX ELSE FarD2D

TwoPi == 6283

Rect(w, h) == [left |-> 0, top |-> 0, right |-> w, bottom |-> h]

(***************************************************************************)
(* std::mt19937 rng: a deterministic generator.  Its state is an index     *)
(* into a fixed cycle of 32-bit outputs, each kept as its top 24 bits (hi) *)
(* and low 8 bits (lo).                                                    *)
(***************************************************************************)
RngTable == <<2^23, 2^22, 0, 2^24 - 1, 3 * 2^22>>

RngPeriod == Len(RngTable)

RngHi(s) == RngTable[(s % RngPeriod) + 1]

RngLo(s) == (37 * (s % RngPeriod)) % 256

RngAdv(s, k) == (s + k) % RngPeriod

\* rw->rng() % m
RngMod(s, m) == ((RngHi(s) % m) * 256 + RngLo(s)) % m

\* generate_canonical<float, 24>: a float of [0, 1), numerator over 2^24
Canon(s) == RngHi(s)

\* std::uniform_real_distribution<float>(a, b)(rng): a value of [a, b), in
\* the unit a and b are given in
Uniform(a, b, s) == a + ((b - a) * (Canon(s) \div 2^14)) \div 2^10

\* sinf of an angle in milliradians, in thousandths: the sine at the start
\* of the angle's octant
SinTable == <<0, 707, 1000, 707, 0, -707, -1000, -707>>

sinf(mrad) == SinTable[(((mrad % TwoPi) * 8) \div TwoPi) + 1]

(***************************************************************************)
(* Star sampling: InitStars and the respawn branch of RenderFrame.         *)
(***************************************************************************)
\* (f - 0.5f) * (float)extent * 2.0f, in whole pixels
CentredCoord(f, extent) == ((2 * (f \div 2^14) - 2^10) * extent) \div 2^10

\* fz * (Z_MAX - Z_MIN) + Z_MIN in binary32: the product is rounded, then
\* the sum
DepthGdi(fz) == F32(F32(fz * ((Z_MAX - Z_MIN) \div ZUnit)) + Z_MIN)

\* gdi: the four draws of InitStars' loop body and of the respawn branch
NewStarGdi(rng, width, height) ==
    LET fx == Canon(rng)
        fy == Canon(RngAdv(rng, 1))
        fz == Canon(RngAdv(rng, 2))
        jitterMax == max(1, CDiv(g_speed, 2) + 1)
    IN  [x |-> CentredCoord(fx, width), y |-> CentredCoord(fy, height),
         z |-> DepthGdi(fz),
         speed |-> g_speed + RngMod(RngAdv(rng, 3), jitterMax),
         base |-> 0, phase |-> 0]

\* Direct2D: ux, uy, uz(zlo, 1.0f), ub(0.6f, 1.0f), uph(0, 2 pi)
NewStarD2D(rng, w, h, zlo) ==
    [x |-> Uniform(0, w, rng), y |-> Uniform(0, h, RngAdv(rng, 1)),
     z |-> Uniform(zlo, FarD2D, RngAdv(rng, 2)),
     speed |-> 0,
     base |-> Uniform(600, 1000, RngAdv(rng, 3)),
     phase |-> Uniform(0, TwoPi, RngAdv(rng, 4))]

\* draws of the generator one star takes
DrawsPerStar(v) == IF v = "gdi" THEN 4 ELSE 5

\* uz of InitStars is (0.2f, 1.0f), uz of the respawn branch (0.5f, 1.0f)
InitZLo == (2 * ZDen) \div 10

RespawnZLo == (5 * ZDen) \div 10

\* a sampling that depends on something besides its inputs: the generator
\* is disturbed by the number of monitors still to be enumerated
InitStarPerMonitor(v, rng, w, h) ==
    IF v = "gdi" THEN NewStarGdi(RngAdv(rng, monitorsLeft), w, h)
    ELSE NewStarD2D(RngAdv(rng, monitorsLeft), w, h, InitZLo)

InitStar(v, rng, w, h) ==
    IF v = "gdi" THEN NewStarGdi(rng, w, h) ELSE NewStarD2D(rng, w, h, InitZLo)

RespawnStar(v, rng, w, h) ==
    IF v = "gdi" THEN NewStarGdi(rng, w, h)
    ELSE NewStarD2D(rng, w, h, RespawnZLo)

RECURSIVE InitStarsLoop(_, _, _, _, _, _)
InitStarsLoop(v, i, stars, rng, w, h) ==
    IF i >= g_starCount THEN [stars |-> stars, rng |-> rng]
    ELSE InitStarsLoop(v, i + 1, Append(stars, InitStar(v, rng, w, h)),
                       RngAdv(rng, DrawsPerStar(v)), w, h)

\* InitStars(rw): the stars are rebuilt from rw->rc and g_starCount
InitStars(v, rw) ==
    LET w == max(1, rw.rc.right - rw.rc.left)
        h == max(1, rw.rc.bottom - rw.rc.top)
        r == InitStarsLoop(v, 0, <<>>, rw.rng, w, h)
    IN  [rw EXCEPT !.stars = r.stars, !.rng = r.rng]

(***************************************************************************)
(* RenderFrame.  A RenderWindow rw is a record                             *)
(*   hwnd     NULL, or the client size [w, h] of the live window           *)
(*   rc       the RECT the program holds                                   *)
(*   backHdc  gdi: NULL, or the size [w, h] of the bitmap selected into it *)
(*   rt       Direct2D: NULL, or the pixel size [w, h] it was created with *)
(*   factory  Direct2D: whether D2D1CreateFactory gave a factory           *)
(*   brush    Direct2D: NULL, "cur" (made by the rt held now) or "stale"   *)
(*            (made by an rt released since)                               *)
(*   stars, rng                                                            *)
(*   ledger   the drawing handles made for rw: live, those made and not    *)
(*            yet freed; lost, whether one was made that no variable       *)
(*            holds; fault, whether one was freed while not live           *)
(*   frame    what the last RenderFrame call on rw did: whether it drew,   *)
(*            the size of the target it drew into, the ellipse calls in    *)
(*            order, and the stars it respawned                            *)
(***************************************************************************)
NoFrame == [drew |-> FALSE, size |-> NULL, client |-> NULL, draws |-> <<>>,
            respawned |-> {}]

\* s.speed * dt * 0.5f, numerator over 2^24, from d = s.speed * dt in ticks;
\* beyond 34.0 it is kept at 34.0, which already sends every depth of
\* [2, 33] below Z_MIN
DecCap == 34 * 2 * PerfFreq

DecGdiOf(d) ==
    IF d >= DecCap THEN 34 * ZUnit
    ELSE IF d <= -DecCap THEN -(34 * ZUnit)
    ELSE d * (ZUnit \div (2 * PerfFreq))

DecGdi(speed, dtT) == DecGdiOf(speed * dtT)

\* 0.5f * speed * dt with speed = g_speedPercent / 100.0f, numerator over ZDen
DecD2D(dtT) == (g_speed * dtT * ZDen) \div (2 * 100 * PerfFreq)

\* a star's depth after "s.z -= ..."
Advance(v, s, dtT) ==
    IF v = "gdi" THEN s.z - DecGdi(s.speed, dtT) ELSE s.z - DecD2D(dtT)

\* the depth test that sends a star to the respawn branch
NeedsRespawn(v, z) == z <= near(v)

\* gdi: inv = Z_MIN / s.z; psz = (int)ceilf(max(1.0f, SIZE_SCALE * inv));
\* if (psz > 128) psz = 128
PszGdi(z) ==
    min(128, ceilf(max(1000, SIZE_SCALE * (((Z_MIN \div 2^14) * 1000)
                                            \div max(1, z \div 2^14))), 1000))

\* res: psz = 2.5f / s.z; if (psz < 1.0f) psz = 1.0f   (thousandths)
PszRes(z) == max(1000, (2500 * ZDen) \div z)

\* clamp(val, minVal, maxVal) of part_001
clamp(val, minVal, maxVal) ==
    IF val < minVal THEN minVal ELSE IF val > maxVal THEN maxVal ELSE val

\* clamp: psz = (g_starBase / s.z) * (0.6f + 0.8f * s.base) *
\* g_starSizeMultiplier; psz = clamp(psz, g_starMin, g_starMax);
\* psz *= dpiX / 96.0f   (thousandths)
PszClamp(z, base, dpiX) ==
    LET shape == 600 + (8 * base) \div 10
        raw == (((((g_starBase * ZDen) \div z) * shape) \div 1000)
                   * g_starSizeMultiplier) \div 1000
    IN  (clamp(raw, g_starMin, g_starMax) * dpiX) \div 96

\* Direct2D: tw = s.base + (sinf(s.phase + totalTime * 5.0f) * 0.5f + 0.5f)
\* * twinkle, with twinkle = g_twinklePercent / 100.0f   (thousandths)
Twinkle(s, totalT) ==
    LET arg == s.phase + (totalT * 5000) \div PerfFreq
    IN  s.base + (((sinf(arg) + 1000) \div 2) * g_twinklePercent) \div 100

\* Direct2D: GetRValue(g_color) / 255.0f * tw, per channel   (thousandths)
ChannelD2D(c, tw) == (c * tw) \div 255

\* gdi: intensity = max(0, min(255, lroundf(100 + depthIntensity * 155 * pulse)))
IntensityGdi(z, totalT) ==
    LET pulse == 1000 + (50 * sinf((totalT * 1500) \div PerfFreq)) \div 1000
        t1000 == (((z - Z_MIN) \div 2^14) * 1000)
                     \div ((Z_MAX - Z_MIN) \div 2^14)
        depthIntensity == 1000 - t1000
        i == lroundf(100 * 1000000 + depthIntensity * 155 * pulse, 1000000)
    IN  max(0, min(255, i))

\* gdi: bucket = max(0, min(BUCKETS - 1, (int)(intensity / (256.0f / BUCKETS))))
BucketGdi(intensity) ==
    max(0, min(BUCKETS - 1, (intensity * BUCKETS) \div 256))

\* gdi: one channel of the brush a bucket gets when it is first needed
ChannelGdi(c, intensity, bucket) ==
    LET b == CDiv(c * intensity, 255)
        whiten == 500 + (500 * bucket) \div (BUCKETS - 1)
    IN  min(255, lroundf(b * whiten + 255 * (1000 - whiten), 1000))

\* a respawn that appends the new star instead of overwriting the old one
PutStarAppended(stars, i, s) == Append(stars, s)

\* "for (auto& s : rw->stars)" works on the element itself
PutStar(stars, i, s) == [stars EXCEPT ![i] = s]

\* the head of the loop body, from the decremented depth z1 on: the star
\* as it is projected, whether it was respawned, and the generator
MoveStar(v, s0, z1, rng, w, h) ==
    IF NeedsRespawn(v, z1)
    THEN [s |-> RespawnStar(v, rng, w, h), resp |-> TRUE,
          rng |-> RngAdv(rng, DrawsPerStar(v))]
    ELSE [s |-> [s0 EXCEPT !.z = IF v = "gdi" THEN F32(z1) ELSE z1],
          resp |-> FALSE, rng |-> rng]

StepStar(v, s0, dtT, rng, w, h) == MoveStar(v, s0, Advance(v, s0, dtT), rng, w, h)

\* gdi: px = cx + s.x * (FOCAL / s.z)
ProjGdi(c, coord, z) == c + (coord * FOCAL * 2^10) \div max(1, z \div 2^14)

\* Direct2D: px = (s.x - cx) / s.z + cx
ProjD2D(c, coord, z) == ((coord - c) * ZDen) \div z + c

\* gdi: the star is skipped when its square lies outside the window
Offscreen(px, py, psz, w, h) ==
    \/ px + psz < 0
    \/ px - psz > w
    \/ py + psz < 0
    \/ py - psz > h

\* gdi: the brush cache brushes[BUCKETS], filled on first use of a bucket
BrushFor(brushes, bucket, c, intensity) ==
    IF brushes[bucket + 1] = NULL
    THEN [brushes EXCEPT ![bucket + 1] =
             [r |-> ChannelGdi(c.r, intensity, bucket),
              g |-> ChannelGdi(c.g, intensity, bucket),
              b |-> ChannelGdi(c.b, intensity, bucket)]]
    ELSE brushes

\* one Ellipse / FillEllipse call
EllipseCall(i, px, py, psz, col, brush) ==
    [star |-> i, px |-> px, py |-> py, psz |-> psz,
     r |-> col.r, g |-> col.g, b |-> col.b, brush |-> brush]

\* the state of the loop after star i; call is what was drawn, <<>> if nothing
AfterStar(i, acc, m, brushes, call) ==
    [stars |-> PutStar(acc.stars, i, m.s),
     rng |-> m.rng,
     draws |-> acc.draws \o call,
     respawned |-> IF m.resp THEN acc.respawned \cup {i} ELSE acc.respawned,
     brushes |-> brushes, brush |-> acc.brush]

PaintGdi(i, acc, m, px, py, psz, bucket, brushes, w, h) ==
    AfterStar(i, acc, m, brushes,
              IF Offscreen(px, py, psz, w, h) THEN <<>>
              ELSE <<EllipseCall(i, px, py, psz, brushes[bucket + 1], acc.brush)>>)

ShadeGdi(i, acc, m, intensity, bucket, w, h) ==
    PaintGdi(i, acc, m, ProjGdi(w \div 2, m.s.x, m.s.z), ProjGdi(h \div 2, m.s.y, m.s.z),
             PszGdi(m.s.z), bucket, BrushFor(acc.brushes, bucket, g_color, intensity),
             w, h)

LightGdi(i, acc, m, intensity, w, h) ==
    ShadeGdi(i, acc, m, intensity, BucketGdi(intensity), w, h)

DrawStarGdi(i, acc, m, totalT, w, h) ==
    LightGdi(i, acc, m, IntensityGdi(m.s.z, totalT), w, h)

\* gdi: the body of RenderFrame's loop for star i.  acc carries the stars,
\* the generator, the Ellipse calls so far, the respawned stars and the
\* brush cache
StarBodyGdi(i, acc, dtT, totalT, w, h) ==
    DrawStarGdi(i, acc, StepStar("gdi", acc.stars[i], dtT, acc.rng, w, h), totalT, w, h)

PszD2D(v, s, dpiX) == IF v = "res" THEN PszRes(s.z) ELSE PszClamp(s.z, s.base, dpiX)

\* rr, gg, bb
ColorD2D(c, tw) ==
    [r |-> ChannelD2D(c.r, tw), g |-> ChannelD2D(c.g, tw), b |-> ChannelD2D(c.b, tw)]

DrawStarD2D(v, i, acc, m, totalT, size, dpiX) ==
    AfterStar(i, acc, m, acc.brushes,
              <<EllipseCall(i, ProjD2D(size.w \div 2, m.s.x, m.s.z),
                            ProjD2D(size.h \div 2, m.s.y, m.s.z),
                            PszD2D(v, m.s, dpiX),
                            ColorD2D(g_color, Twinkle(m.s, totalT)), acc.brush)>>)

\* Direct2D: the body of RenderFrame's loop for star i; size is
\* rw->rt->GetSize(), dpiX what GetDpi reports
StarBodyD2D(v, i, acc, dtT, totalT, size, dpiX) ==
    DrawStarD2D(v, i, acc, StepStar(v, acc.stars[i], dtT, acc.rng, size.w, size.h),
                totalT, size, dpiX)

RECURSIVE FrameLoop(_, _, _, _, _, _, _, _)
\* the range-for over rw->stars: n is the end taken when the loop starts
FrameLoop(v, i, n, acc, dtT, totalT, size, dpiX) ==
    IF i > n THEN acc
    ELSE FrameLoop(v, i + 1, n,
                   IF v = "gdi"
                   THEN StarBodyGdi(i, acc, dtT, totalT, size.w, size.h)
                   ELSE StarBodyD2D(v, i, acc, dtT, totalT, size, dpiX),
                   dtT, totalT, size, dpiX)

NoHandles == [live |-> {}, lost |-> FALSE, fault |-> FALSE]

\* the system makes the handles hs for rw
Alloc(rw, hs) ==
    [rw EXCEPT !.ledger.live = @ \cup hs,
               !.ledger.lost = @ \/ (rw.ledger.live \cap hs # {})]

\* the handles hs are freed (DeleteObject, DeleteDC, Release)
Free(rw, hs) ==
    [rw EXCEPT !.ledger.live = @ \ hs,
               !.ledger.fault = @ \/ ~(hs \subseteq rw.ledger.live)]

\* if (rw->rt) { rw->rt->Release(); rw->rt = nullptr; }: releasing rw->rt
\* leaves a brush it made behind
ReleaseRT(rw) ==
    IF rw.rt = NULL THEN rw
    ELSE Free([rw EXCEPT !.rt = NULL,
                         !.brush = IF rw.brush = NULL THEN NULL ELSE Brush("stale")],
              {"rt"})

\* CreateRT(rw); ok: whether CreateHwndRenderTarget succeeds
CreateRT(rw, ok) ==
    IF ~rw.factory THEN rw
    ELSE LET r == ReleaseRT(rw)
         IN  IF ok
             THEN Alloc([r EXCEPT !.rt = [w |-> rw.rc.right - rw.rc.left,
                                          h |-> rw.rc.bottom - rw.rc.top]],
                        {"rt"})
             ELSE r

\* DestroyBackbuffer(rw): the bitmap and the memory DC are deleted if
\* rw->backHdc is set
DestroyBackbuffer(rw) ==
    IF rw.backHdc = NULL THEN rw
    ELSE Free([rw EXCEPT !.backHdc = NULL], {"backHdc", "backBmp"})

\* CreateBackbuffer(rw); res: "ok", "nodc" (GetDC gave NULL: return before
\* anything is released), "fail" (the bitmap was not created; a memory DC
\* that was is deleted) or "nomem" (the memory DC was not created, the
\* bitmap was: the function returns without deleting it)
CreateBackbuffer(rw, res) ==
    IF rw.hwnd = NULL \/ res = "nodc" THEN rw
    ELSE LET r == DestroyBackbuffer(rw)
         IN  CASE res = "fail" -> r
               [] res = "nomem" -> [r EXCEPT !.ledger.lost = TRUE]
               [] OTHER ->
                    Alloc([r EXCEPT !.backHdc = [w |-> max(1, rw.rc.right - rw.rc.left),
                                                 h |-> max(1, rw.rc.bottom - rw.rc.top)]],
                          {"backHdc", "backBmp"})

\* what EndDraw's answer leads to: on D2DERR_RECREATE_TARGET the target is
\* released and CreateRT(rw) is called once
AfterEndDraw(rw, hr, ok) ==
    IF hr = "D2DERR_RECREATE_TARGET" THEN CreateRT(ReleaseRT(rw), ok) ELSE rw

\* whether RenderFrame goes past its first line
HasTarget(v, rw) == IF v = "gdi" THEN rw.backHdc # NULL ELSE rw.rt # NULL

\* the size the loop works with: the client rectangle (gdi) or
\* rw->rt->GetSize(), in DIPs
FrameSize(v, rw, dpiX) ==
    IF v = "gdi"
    THEN [w |-> max(1, rw.rc.right - rw.rc.left), h |-> max(1, rw.rc.bottom - rw.rc.top)]
    ELSE [w |-> (rw.rt.w * 96) \div dpiX, h |-> (rw.rt.h * 96) \div dpiX]

\* if (!rw->brush) rw->rt->CreateSolidColorBrush(...)
FirstBrush(v, rw) == IF D2D(v) /\ rw.brush = NULL THEN Brush("cur") ELSE rw.brush

FrameStart(v, rw) ==
    [stars |-> rw.stars, rng |-> rw.rng, draws |-> <<>>, respawned |-> {},
     brushes |-> [k \in 1 .. BUCKETS |-> NULL], brush |-> FirstBrush(v, rw)]

\* the surface after the loop, with the record of what the call drew
Drawn(v, rw, acc) ==
    [rw EXCEPT !.stars = acc.stars, !.rng = acc.rng, !.brush = acc.brush,
               !.ledger = IF D2D(v) /\ rw.brush = NULL
                          THEN Alloc(rw, {"brush"}).ledger ELSE @,
               !.frame = [drew |-> TRUE,
                          size |-> IF v = "gdi" THEN rw.backHdc ELSE rw.rt,
                          client |-> rw.client,
                          draws |-> acc.draws,
                          respawned |-> acc.respawned]]

\* RenderFrame(rw, dt, totalTime); hr is EndDraw's answer, ok whether a
\* render target can be created now
RenderFrame(v, rw, dtT, totalT, dpiX, hr, ok) ==
    IF ~HasTarget(v, rw) THEN [rw EXCEPT !.frame = NoFrame]
    ELSE IF v = "gdi"
    THEN Drawn(v, rw, FrameLoop(v, 1, Len(rw.stars), FrameStart(v, rw), dtT, totalT,
                                FrameSize(v, rw, dpiX), dpiX))
    ELSE AfterEndDraw(Drawn(v, rw, FrameLoop(v, 1, Len(rw.stars), FrameStart(v, rw),
                                             dtT, totalT, FrameSize(v, rw, dpiX), dpiX)),
                      hr, ok)

(***************************************************************************)
(* The environment's choices.                                              *)
(***************************************************************************)
\* client sizes a window is given, in pixels
Desktop == [w |-> 8, h |-> 6]

Shrunk == [w |-> 4, h |-> 4]

Sizes == {Desktop, Shrunk}

\* what std::random_device seeds a surface's generator with
Seeds == 0 .. MaxSeed

\* "seconds < g_inputDebounceSeconds" is false from this many ticks on
DebounceTicks(v) == ceilf(g_inputDebounceSeconds(v) * PerfFreq, 100)

\* the instants at which the counter is read
ClockSamples(v) == {0, DebounceTicks(v) - 1, DebounceTicks(v), MaxClock}

Origin == [x |-> 0, y |-> 0]

\* where the cursor is put
Points == {Origin, [x |-> 5, y |-> 0], [x |-> 0, y |-> 12], [x |-> 20, y |-> 0]}

InputMessages == {"WM_KEYDOWN", "WM_LBUTTONDOWN", "WM_RBUTTONDOWN",
                  "WM_MBUTTONDOWN", "WM_XBUTTONDOWN", "WM_MOUSEMOVE"}

\* outcomes of creating a drawing target
CreateResults(v) == IF v = "gdi" THEN {"ok", "nodc", "fail", "nomem"} ELSE {"ok", "fail"}

EndDrawResults(v) == IF v = "gdi" THEN {"S_OK"} ELSE {"S_OK", "D2DERR_RECREATE_TARGET"}

(***************************************************************************)
(* Surfaces.                                                               *)
(***************************************************************************)
\* new RenderWindow() with hwnd, rc and the seeded generator filled in;
\* client is what GetClientRect(hwnd) answers, alive what IsWindow(hwnd) does
NewRenderWindow(v, id, sz, seed) ==
    [hwnd |-> [id |-> id], alive |-> TRUE, client |-> sz, rc |-> Rect(sz.w, sz.h),
     backHdc |-> NULL, rt |-> NULL, factory |-> D2D(v), brush |-> NULL,
     stars |-> <<>>, rng |-> seed, ledger |-> NoHandles, frame |-> NoFrame]

\* CreateBackbuffer(rw) or CreateRT(rw), whichever the variant has
CreateTarget(v, rw, res) ==
    IF v = "gdi" THEN CreateBackbuffer(rw, res) ELSE CreateRT(rw, res = "ok")

\* the surfaces the frame loop renders
Surfaces == IF runMode = "full" THEN g_windows
            ELSE IF pv_rw = NULL THEN <<>> ELSE <<pv_rw>>

\* case WM_SIZE of FullWndProc, after the window got client size sz
OnSize(v, rw, sz, res) ==
    LET r == [rw EXCEPT !.client = sz, !.rc = Rect(sz.w, sz.h)]
    IN  IF v = "gdi" THEN CreateBackbuffer(DestroyBackbuffer(r), res)
        ELSE CreateRT(ReleaseRT(r), res = "ok")

\* a gate that takes the interval as elapsed at any time
DebounceNeverHolds(v) == TRUE

\* seconds >= g_inputDebounceSeconds, with seconds = (now - g_startCounter) / g_perfFreq
DebounceElapsed(v) ==
    (clock - g_startCounter) * 100 >= g_inputDebounceSeconds(v) * PerfFreq

ForegroundIsOurWindow == fgOurs

\* the same test with a threshold twice as wide
SmallMoveWide(cur, start) ==
    /\ abs(cur.x - start.x) < 2 * g_mouseMoveThreshold
    /\ abs(cur.y - start.y) < 2 * g_mouseMoveThreshold

\* dx < g_mouseMoveThreshold && dy < g_mouseMoveThreshold
SmallMove(cur, start) ==
    /\ abs(cur.x - start.x) < g_mouseMoveThreshold
    /\ abs(cur.y - start.y) < g_mouseMoveThreshold

\* the input cases of FullWndProc: "quit" (g_running = false; PostQuitMessage),
\* "baseline" (g_startMouse = cur; g_startMouseInit = true) or "ignore"
InputOutcome(v, m) ==
    IF v = "res"
    THEN IF DebounceElapsed(v) THEN "quit" ELSE "ignore"
    ELSE IF ~DebounceElapsed(v) THEN "ignore"
         ELSE IF ~ForegroundIsOurWindow THEN "ignore"
         ELSE IF m # "WM_MOUSEMOVE" THEN "quit"
         ELSE IF ~g_startMouseInit THEN "baseline"
         ELSE IF SmallMove(cursor, g_startMouse) THEN "ignore"
         ELSE "quit"

(***************************************************************************)
(* Start-up.                                                               *)
(***************************************************************************)
\* MonEnumProc for one monitor: made = FALSE when GetMonitorInfoW or
\* CreateWindowExW fails.  WM_CREATE of the gdi and clamp FullWndProc clears
\* g_startMouseInit; the WM_SIZE sent during creation finds no rw yet.
MonEnumProc(made, sz, seed, res) ==
    /\ pc = "enum"
    /\ runMode = "full"
    /\ monitorsLeft > 0
    /\ monitorsLeft' = monitorsLeft - 1
    /\ g_windows' =
         IF made
         THEN LET rw == NewRenderWindow(variant, Len(g_windows) + 1, sz, seed)
              IN  Append(g_windows, InitStars(variant, CreateTarget(variant, rw, res)))
         ELSE g_windows
    /\ g_startMouseInit' = IF made /\ variant # "res" THEN FALSE ELSE g_startMouseInit
    /\ UNCHANGED <<cfgVars, uiVars, envVars, loopVars, pc, clock, msg, g_running, quitPosted,
                   g_startCounter, g_startMouse, pv_rw, proc>>

\* RunFull from the end of EnumDisplayMonitors to the head of the loop
RunFull ==
    /\ pc = "enum"
    /\ runMode = "full"
    /\ monitorsLeft = 0
    /\ g_startCounter' = clock
    /\ IF variant = "res"
       THEN UNCHANGED <<g_startMouse, g_startMouseInit>>
       ELSE g_startMouse' = cursor /\ g_startMouseInit' = TRUE
    /\ last' = clock
    /\ total' = 0
    /\ pc' = IF g_running THEN "peek" ELSE "cleanup"
    /\ UNCHANGED <<cfgVars, uiVars, envVars, dt, ri, clock, msg, g_running, quitPosted,
                   g_windows, pv_rw, monitorsLeft, proc>>

\* RunPreview up to the head of its loop
RunPreview(parentOk, childOk, sz, seed, res) ==
    /\ pc = "enum"
    /\ runMode = "preview"
    /\ IF parentOk /\ childOk
       THEN /\ pv_rw' = InitStars(variant,
                          CreateTarget(variant, NewRenderWindow(variant, 1, sz, seed), res))
            /\ pc' = "peek"
       ELSE /\ pv_rw' = pv_rw
            /\ pc' = "done"
    /\ last' = clock
    /\ total' = 0
    /\ UNCHANGED <<cfgVars, uiVars, envVars, inputVars, dt, ri, clock, msg, g_windows,
                   monitorsLeft, proc>>

(***************************************************************************)
(* The inner PeekMessageW loop and what the environment does meanwhile.    *)
(***************************************************************************)
\* the performance counter moves on
Tick(c) ==
    /\ pc = "peek"
    /\ c > clock
    /\ clock' = c
    /\ UNCHANGED <<cfgVars, uiVars, envVars, loopVars, inputVars, pc, msg, g_windows, pv_rw,
                   monitorsLeft, proc>>

\* the user moves the pointer
MoveCursor(p) ==
    /\ pc = "peek"
    /\ p # cursor
    /\ cursor' = p
    /\ UNCHANGED <<cfgVars, uiVars, loopVars, inputVars, pc, clock, msg, fgOurs, g_windows, pv_rw,
                   monitorsLeft, proc>>

\* the foreground window changes owner
SetForeground(b) ==
    /\ pc = "peek"
    /\ b # fgOurs
    /\ fgOurs' = b
    /\ UNCHANGED <<cfgVars, uiVars, loopVars, inputVars, pc, clock, msg, cursor, g_windows, pv_rw,
                   monitorsLeft, proc>>

\* DispatchMessage of an input message to FullWndProc
DispatchInput(m) ==
    /\ pc = "peek"
    /\ runMode = "full"
    /\ Len(g_windows) > 0
    /\ msg' = [message |-> m, pt |-> cursor]
    /\ LET o == InputOutcome(variant, m)
       IN  /\ g_running' = IF o = "quit" THEN FALSE ELSE g_running
           /\ quitPosted' = IF o = "quit" THEN TRUE ELSE quitPosted
           /\ g_startMouse' = IF o = "baseline" THEN cursor ELSE g_startMouse
           /\ g_startMouseInit' = IF o = "baseline" THEN TRUE ELSE g_startMouseInit
    /\ UNCHANGED <<cfgVars, uiVars, envVars, loopVars, pc, clock, g_startCounter, g_windows,
                   pv_rw, monitorsLeft, proc>>

\* window i is resized to sz and FullWndProc handles WM_SIZE
WmSize(i, sz, res) ==
    /\ pc = "peek"
    /\ runMode = "full"
    /\ i \in 1 .. Len(g_windows)
    /\ sz # g_windows[i].client
    /\ g_windows' = [g_windows EXCEPT ![i] = OnSize(variant, @, sz, res)]
    /\ g_startMouseInit' = IF variant = "res" THEN g_startMouseInit ELSE FALSE
    /\ UNCHANGED <<cfgVars, uiVars, envVars, loopVars, pc, clock, msg, g_running, quitPosted,
                   g_startCounter, g_startMouse, pv_rw, monitorsLeft, proc>>

\* the preview child is resized by its host: PreviewProc hands WM_SIZE to
\* DefWindowProcW
PreviewResize(sz) ==
    /\ pc = "peek"
    /\ runMode = "preview"
    /\ pv_rw.alive
    /\ sz # pv_rw.client
    /\ pv_rw' = [pv_rw EXCEPT !.client = sz]
    /\ UNCHANGED <<cfgVars, uiVars, envVars, loopVars, inputVars, pc, clock, msg, g_windows,
                   monitorsLeft, proc>>

\* the host destroys the preview's parent, and the child with it
PreviewClosed ==
    /\ pc = "peek"
    /\ runMode = "preview"
    /\ pv_rw.alive
    /\ pv_rw' = [pv_rw EXCEPT !.alive = FALSE]
    /\ UNCHANGED <<cfgVars, uiVars, envVars, loopVars, inputVars, pc, clock, msg, g_windows,
                   monitorsLeft, proc>>

\* now, dt, last and total, as computed after the inner loop
StartFrame ==
    /\ dt' = clock - last
    /\ last' = clock
    /\ total' = total + (clock - last)
    /\ ri' = 1
    /\ pc' = "render"

\* PeekMessageW hands out WM_QUIT: g_running = false; break
RetrieveQuit ==
    /\ pc = "peek"
    /\ runMode = "full"
    /\ quitPosted
    /\ quitPosted' = FALSE
    /\ g_running' = FALSE
    /\ msg' = [message |-> "WM_QUIT", pt |-> cursor]
    /\ StartFrame
    /\ UNCHANGED <<cfgVars, uiVars, envVars, clock, g_startCounter, g_startMouse,
                   g_startMouseInit, g_windows, pv_rw, monitorsLeft, proc>>

\* PeekMessageW finds the queue empty
PeekEmpty ==
    /\ pc = "peek"
    /\ ~quitPosted
    /\ StartFrame
    /\ UNCHANGED <<cfgVars, uiVars, envVars, inputVars, clock, msg, g_windows, pv_rw,
                   monitorsLeft, proc>>

(***************************************************************************)
(* Rendering, the end of an iteration, clean-up.                           *)
(***************************************************************************)
\* RenderFrame(rw, (float)dt, (float)total) for the next surface
RenderFrameStep(hr, ok) ==
    /\ pc = "render"
    /\ ri <= Len(Surfaces)
    /\ LET rw == RenderFrame(variant, Surfaces[ri], dt, total, dpi, hr, ok)
       IN  IF runMode = "full"
           THEN g_windows' = [g_windows EXCEPT ![ri] = rw] /\ pv_rw' = pv_rw
           ELSE pv_rw' = rw /\ g_windows' = g_windows
    /\ ri' = ri + 1
    /\ UNCHANGED <<cfgVars, uiVars, envVars, inputVars, last, dt, total, pc, clock, msg,
                   monitorsLeft, proc>>

\* Sleep, then the loop condition: g_running, or IsWindow(child)
LoopCondition == IF runMode = "full" THEN g_running ELSE pv_rw.alive

EndIteration ==
    /\ pc = "render"
    /\ ri > Len(Surfaces)
    /\ pc' = IF LoopCondition THEN "peek" ELSE "cleanup"
    /\ UNCHANGED <<cfgVars, uiVars, envVars, inputVars, loopVars, clock, msg, g_windows, pv_rw,
                   monitorsLeft, proc>>

\* the body of the loop that follows the frame loop, for one surface, up to
\* "delete rw": the backbuffer is destroyed, or the brush and the render
\* target are released; the window is destroyed
Teardown(v, rw) ==
    LET r == IF v = "gdi" THEN DestroyBackbuffer(rw)
             ELSE Free(Free(rw, IF rw.brush # NULL THEN {"brush"} ELSE {}),
                       IF rw.rt # NULL THEN {"rt"} ELSE {})
    IN  [r EXCEPT !.hwnd = NULL, !.alive = FALSE]

\* what follows the loop: every surface is released and deleted
Cleanup ==
    /\ pc = "cleanup"
    /\ g_windows' = <<>>
    /\ pv_rw' = NULL
    /\ pc' = "done"
    /\ UNCHANGED <<cfgVars, uiVars, envVars, inputVars, loopVars, clock, msg, monitorsLeft, proc>>

(***************************************************************************)
(* Settings: the registry and the text of the edit controls.  An int or a  *)
(* DWORD is carried as the signed 32-bit number with the same bits; texts  *)
(* are sequences of characters.                                            *)
(***************************************************************************)
Digits == <<"0", "1", "2", "3", "4", "5", "6", "7", "8", "9">>

IsDigit(c) == \E d \in 1 .. 10 : Digits[d] = c

DigitOf(c) == (CHOOSE d \in 1 .. 10 : Digits[d] = c) - 1

RECURSIVE SkipSpaces(_)
SkipSpaces(t) == IF t # <<>> /\ Head(t) = " " THEN SkipSpaces(Tail(t)) ELSE t

RECURSIVE LeadingDigits(_)
LeadingDigits(t) ==
    IF t # <<>> /\ IsDigit(Head(t)) THEN <<Head(t)>> \o LeadingDigits(Tail(t)) ELSE <<>>

RECURSIVE StripZeros(_)
StripZeros(ds) == IF ds # <<>> /\ Head(ds) = "0" THEN StripZeros(Tail(ds)) ELSE ds

RECURSIVE NumOf(_, _)
\* the number written by the digits ds, after the digits that gave acc
NumOf(ds, acc) == IF ds = <<>> THEN acc ELSE NumOf(Tail(ds), 10 * acc + DigitOf(Head(ds)))

\* UINT_MAX = 42949 67295 and INT_MAX = 21474 83647, in halves of five digits
UIntOfHalves(hi, lo) ==
    IF hi > 42949 \/ (hi = 42949 /\ lo > 67295) THEN [ok |-> FALSE, val |-> 0]
    ELSE IF hi < 21474 \/ (hi = 21474 /\ lo <= 83647)
         THEN [ok |-> TRUE, val |-> hi * 100000 + lo]
         ELSE [ok |-> TRUE, val |-> ((hi - 42948) * 100000) + (lo - 167296)]

\* the value of a run of digits without leading zeros, as GetDlgItemInt
\* hands it to an int: above UINT_MAX the translation fails
UIntOfDigits(ds) ==
    IF Len(ds) <= 9 THEN [ok |-> TRUE, val |-> NumOf(ds, 0)]
    ELSE IF Len(ds) > 10 THEN [ok |-> FALSE, val |-> 0]
    ELSE UIntOfHalves(NumOf(SubSeq(ds, 1, 5), 0), NumOf(SubSeq(ds, 6, 10), 0))

ParseDigits(run) ==
    IF run = <<>> THEN [ok |-> FALSE, val |-> 0] ELSE UIntOfDigits(StripZeros(run))

\* GetDlgItemInt(hWnd, id, &ok, FALSE) on a control holding text t: leading
\* spaces are dropped, the digits up to the first other character are
\* translated
GetDlgItemInt(t) == ParseDigits(LeadingDigits(SkipSpaces(t)))

RECURSIVE ToDigits(_)
ToDigits(n) ==
    IF n < 10 THEN <<Digits[n + 1]>> ELSE ToDigits(n \div 10) \o <<Digits[(n % 10) + 1]>>

\* five digits of lo < 100000
Pad5(lo) == SubSeq(ToDigits(100000 + lo), 2, 6)

HalvesText(hi, lo) ==
    IF lo >= 100000 THEN ToDigits(hi + 1) \o Pad5(lo - 100000) ELSE ToDigits(hi) \o Pad5(lo)

\* t = v + 2^31 for a negative v: the DWORD is t + 2^31 = t + 21474 83648
NegativeText(t) == HalvesText((t \div 100000) + 21474, (t % 100000) + 83648)

\* SetDlgItemInt(hWnd, id, v, FALSE): v written as an unsigned number
SetDlgItemInt(v) == IF v >= 0 THEN ToDigits(v) ELSE NegativeText((v + 2147483647) + 1)

\* a limit with the upper bound left out
LimitBelowOnly(lo, hi, x) == max(lo, x)

\* max(lo, min(hi, x)) (std::fmax / std::fmin in the gdi variant)
Limit(lo, hi, x) == max(lo, min(hi, x))

RegNames(v) ==
    IF v = "gdi" THEN {"REG_STARS", "REG_SPEED"}
    ELSE {"REG_STARS", "REG_SPEED", "REG_TWINKLE", "REG_COLOR_R", "REG_COLOR_G",
          "REG_COLOR_B"}

AllRegNames == RegNames("res")

\* a value that is not in the registry
Absent == [set |-> FALSE, val |-> 0]

Stored(v) == [set |-> TRUE, val |-> v]

\* GetRegDWORD(name, def)
GetRegDWORD(name, def) == IF registry[name].set THEN registry[name].val ELSE def

\* RGB(r, g, b) keeps the low byte of each argument
RGB(r, g, b) == [r |-> r % 256, g |-> g % 256, b |-> b % 256]

\* the colours of the combo box, by index
Presets == <<[r |-> 255, g |-> 255, b |-> 240], [r |-> 200, g |-> 200, b |-> 255],
             [r |-> 160, g |-> 180, b |-> 255], [r |-> 255, g |-> 240, b |-> 180]>>

\* the index CB_SETCURSEL is given when the window is set up: the preset
\* equal to g_color; otherwise none (res: -1, CB_ERR) or the first (clamp)
InitialSel(v, c) ==
    IF \E k \in 1 .. 4 : Presets[k] = c THEN (CHOOSE k \in 1 .. 4 : Presets[k] = c) - 1
    ELSE IF v = "clamp" THEN 0 ELSE -1

\* the settings window: whether it exists, how it was closed, the text of
\* its edit controls, the combo box selection, and the values the last
\* SaveSettings got into the registry
NoDialog ==
    [open |-> FALSE, result |-> "none", stars |-> <<>>, speed |-> <<>>,
     twinkle |-> <<>>, sel |-> -1, saved |-> {}]

Fields(v) == IF v = "gdi" THEN {"stars", "speed"} ELSE {"stars", "speed", "twinkle"}

\* LoadSettings(), the first thing wWinMain does
LoadSettings ==
    /\ pc = "main"
    /\ g_starCount' = GetRegDWORD("REG_STARS", g_starCount)
    /\ g_speed' = GetRegDWORD("REG_SPEED", g_speed)
    /\ IF variant = "gdi"
       THEN UNCHANGED <<g_twinklePercent, g_color>>
       ELSE /\ g_twinklePercent' = GetRegDWORD("REG_TWINKLE", g_twinklePercent)
            /\ g_color' = RGB(GetRegDWORD("REG_COLOR_R", g_color.r),
                              GetRegDWORD("REG_COLOR_G", g_color.g),
                              GetRegDWORD("REG_COLOR_B", g_color.b))
    /\ pc' = "args"
    /\ UNCHANGED <<variant, runMode, dpi, uiVars, envVars, loopVars, inputVars, clock, msg,
                   g_windows, pv_rw, monitorsLeft, proc>>

\* what WM_CREATE / WM_INITDIALOG puts into the controls of the settings
\* window
SettingsControls ==
    [open |-> TRUE, result |-> "none",
     stars |-> SetDlgItemInt(g_starCount),
     speed |-> SetDlgItemInt(g_speed),
     twinkle |-> IF D2D(variant) THEN SetDlgItemInt(g_twinklePercent) ELSE <<>>,
     sel |-> IF D2D(variant) THEN InitialSel(variant, g_color) ELSE -1,
     saved |-> {}]

\* mode 'c': the settings window is created and WM_CREATE / WM_INITDIALOG
\* fills its controls; created = FALSE when the window cannot be created,
\* and -1 goes back to wWinMain
ShowSettings(created) ==
    /\ pc = "args"
    /\ runMode = "settings"
    /\ IF created
       THEN /\ dlg' = SettingsControls
            /\ pc' = "dialog"
            /\ proc' = proc
       ELSE /\ dlg' = dlg
            /\ pc' = "done"
            /\ proc' = [proc EXCEPT !.ret = -1]
    /\ UNCHANGED <<cfgVars, registry, envVars, loopVars, inputVars, clock, msg, g_windows,
                   pv_rw, monitorsLeft>>

\* mode 'c' of the gdi and clamp variants
ShowSettingsModalPopup(created) == variant # "res" /\ ShowSettings(created)

\* the user replaces the text of an edit control
EditField(f, t) ==
    /\ pc = "dialog"
    /\ dlg.open
    /\ f \in Fields(variant)
    /\ dlg[f] # t
    /\ dlg' = [dlg EXCEPT ![f] = t]
    /\ UNCHANGED <<cfgVars, registry, envVars, loopVars, inputVars, pc, clock, msg,
                   g_windows, pv_rw, monitorsLeft, proc>>

\* the user picks an entry of the colour combo box
SelectPreset(k) ==
    /\ pc = "dialog"
    /\ dlg.open
    /\ D2D(variant)
    /\ dlg.sel # k
    /\ dlg' = [dlg EXCEPT !.sel = k]
    /\ UNCHANGED <<cfgVars, registry, envVars, loopVars, inputVars, pc, clock, msg,
                   g_windows, pv_rw, monitorsLeft, proc>>

\* the colour button: ChooseColorW comes back with c accepted
PickColor(c) ==
    /\ pc = "dialog"
    /\ dlg.open
    /\ D2D(variant)
    /\ g_color # c
    /\ g_color' = c
    /\ UNCHANGED <<variant, runMode, dpi, g_starCount, g_speed, g_twinklePercent, uiVars,
                   envVars, loopVars, inputVars, pc, clock, msg, g_windows, pv_rw,
                   monitorsLeft, proc>>

\* "x = GetDlgItemInt(...); if (!ok) x = current;" for a control holding t
FieldOr(parsed, current) == IF parsed.ok THEN parsed.val ELSE current

FieldValue(t, current) == FieldOr(GetDlgItemInt(t), current)

\* the switch over the combo box selection
ColorOf(sel, current) == IF sel \in 0 .. 3 THEN Presets[sel + 1] ELSE current

\* the value SaveSettings passes to SetRegDWORD under each name
SavedValue(n, conf) ==
    CASE n = "REG_STARS" -> conf.stars
      [] n = "REG_SPEED" -> conf.speed
      [] n = "REG_TWINKLE" -> conf.twinkle
      [] n = "REG_COLOR_R" -> conf.color.r
      [] n = "REG_COLOR_G" -> conf.color.g
      [] n = "REG_COLOR_B" -> conf.color.b

\* SaveSettings(): one SetRegDWORD per name; written are the names whose
\* call gets the key opened
SaveSettings(reg, conf, written) ==
    [n \in AllRegNames |-> IF n \in written THEN Stored(SavedValue(n, conf)) ELSE reg[n]]

\* what the OK branch computes from the controls
OkValues ==
    [stars |-> Limit(10, 5000, FieldValue(dlg.stars, g_starCount)),
     speed |-> Limit(10, 300, FieldValue(dlg.speed, g_speed)),
     twinkle |-> IF variant = "gdi" THEN g_twinklePercent
                 ELSE Limit(0, 100, FieldValue(dlg.twinkle, g_twinklePercent)),
     color |-> IF variant = "gdi" THEN g_color ELSE ColorOf(dlg.sel, g_color)]

\* one attempt to bring a dialog up
Attempt(call, shown) == [call |-> call, shown |-> shown]

\* the dialog that is up was created by CreateDialogParamW in the owner
Embedded ==
    /\ proc.dialogs # <<>>
    /\ proc.dialogs[Len(proc.dialogs)] = Attempt("CreateDialogParamW", TRUE)

\* EndDialog(hDlg, id), by where the program goes on: EndDialog hides the
\* dialog and marks it as ended, and it is DialogBoxParamW that leaves its
\* loop on the mark and destroys the window.  A dialog made by
\* CreateDialogParamW stays a window, so the loop of RunSettingsSmart,
\* "while (IsWindow(dlg) && IsWindow(owner) && GetMessageW(...))", goes on.
\* (The settings window of the other variants is destroyed by its OK and
\* Cancel branches, which ends the "while (IsWindow(dlg) && ...)" loop of
\* ShowSettingsModalPopup.)
EndDialog == IF variant = "res" /\ Embedded THEN "dialog" ELSE "done"

\* the OK button; written: the names SaveSettings manages to write
PressOK(written) ==
    /\ pc = "dialog"
    /\ dlg.open
    /\ written \subseteq RegNames(variant)
    /\ g_starCount' = OkValues.stars
    /\ g_speed' = OkValues.speed
    /\ g_twinklePercent' = OkValues.twinkle
    /\ g_color' = OkValues.color
    /\ registry' = SaveSettings(registry, OkValues, written)
    /\ dlg' = [dlg EXCEPT !.open = FALSE, !.result = "ok", !.saved = written]
    /\ pc' = EndDialog
    /\ UNCHANGED <<variant, runMode, dpi, envVars, loopVars, inputVars, clock, msg,
                   g_windows, pv_rw, monitorsLeft, proc>>

\* the Cancel button
PressCancel ==
    /\ pc = "dialog"
    /\ dlg.open
    /\ dlg' = [dlg EXCEPT !.open = FALSE, !.result = "cancel"]
    /\ pc' = EndDialog
    /\ UNCHANGED <<cfgVars, registry, envVars, loopVars, inputVars, clock, msg, g_windows,
                   pv_rw, monitorsLeft, proc>>

(***************************************************************************)
(* wWinMain: the command line, the choice of the mode, the exit code.      *)
(* proc is a record                                                        *)
(*   args     the command line after the program's name (argv[1], ...),    *)
(*            each argument a sequence of characters                       *)
(*   mode     the wchar_t ParseArgs gave (NUL before it ran)               *)
(*   argH     the HWND ParseArgs gave, as a number (0 is NULL)             *)
(*   calls    the mode functions wWinMain has called, in order             *)
(*   dialogs  the dialogs the resource-dialog variant tried to create, in  *)
(*            order: how, and whether the dialog came up                   *)
(*   owner    what RunSettingsSmart found out about its owner window       *)
(*   ret      the int the settings function gave back (0 while none has)   *)
(*   exit     the value wWinMain returned (read once pc = "exited")        *)
(***************************************************************************)
NUL == ""

UpperCase == <<"A", "B", "C", "D", "E", "F", "P", "S", "X">>

LowerCase == <<"a", "b", "c", "d", "e", "f", "p", "s", "x">>

towlower(c) ==
    IF \E i \in 1 .. Len(UpperCase) : UpperCase[i] = c
    THEN LowerCase[CHOOSE i \in 1 .. Len(UpperCase) : UpperCase[i] = c]
    ELSE c

HexDigits == Digits \o <<"a", "b", "c", "d", "e", "f">>

IsDigitIn(c, base) == \E d \in 1 .. base : HexDigits[d] = towlower(c)

RECURSIVE StrToNum(_, _, _)
\* the digits of the base at the head of t, after the digits that gave acc
StrToNum(t, base, acc) ==
    IF t # <<>> /\ IsDigitIn(Head(t), base)
    THEN StrToNum(Tail(t), base,
                  (base * acc) + (CHOOSE d \in 1 .. base : HexDigits[d] = towlower(Head(t))) - 1)
    ELSE acc

\* _wcstoui64(t, nullptr, 0): the base is read off the prefix ("0x" sixteen,
\* "0" eight, else ten) and the number ends at the first other character.
\* The command lines of the model carry no sign and stay below 2^31.
wcstoui64(t) ==
    IF Len(t) >= 2 /\ t[1] = "0" /\ towlower(t[2]) = "x"
    THEN StrToNum(SubSeq(t, 3, Len(t)), 16, 0)
    ELSE IF t # <<>> /\ t[1] = "0" THEN StrToNum(Tail(t), 8, 0)
    ELSE StrToNum(t, 10, 0)

RECURSIVE find(_, _, _)
\* std::wstring::find: the first position of c in t from i on, 0 for npos
find(t, c, i) == IF i > Len(t) THEN 0 ELSE IF t[i] = c THEN i ELSE find(t, c, i + 1)

\* ParseArgs(argc, argv, modeOut, hwndOut)
ParseArgs(args) ==
    IF Len(args) = 0 \/ ~(Len(args[1]) >= 2 /\ args[1][1] \in {"/", "-"})
    THEN [mode |-> NUL, hwnd |-> 0]
    ELSE LET a1 == args[1]
             colon == find(a1, ":", 1)
             num == SubSeq(a1, colon + 1, Len(a1))
         IN  [mode |-> towlower(a1[2]),
              hwnd |-> IF colon # 0
                       THEN IF num # <<>> THEN wcstoui64(num) ELSE 0
                       ELSE IF /\ Len(args) >= 2
                               /\ args[2] # <<>>
                               /\ \A i \in 1 .. Len(args[2]) : IsDigit(args[2][i])
                            THEN wcstoui64(args[2])
                            ELSE 0]

\* the branch wWinMain takes without testing the handle of mode 'p'
ModeOfLetter(a) ==
    IF a.mode = "c" THEN "settings" ELSE IF a.mode = "p" THEN "preview" ELSE "full"

\* the branch wWinMain takes on what ParseArgs gave
ModeOf(a) ==
    IF a.mode = "c" THEN "settings"
    ELSE IF a.mode = "p" /\ a.hwnd # 0 THEN "preview"
    ELSE "full"

\* the function wWinMain calls first in a mode
ModeFunction(v, m) ==
    CASE m = "settings" -> IF v = "res" THEN "RunSettingsSmart" ELSE "ShowSettingsModalPopup"
      [] m = "preview" -> "RunPreview"
      [] m = "full" -> "RunFull"

\* client areas of the window a settings dialog is to be embedded in
Roomy == [w |-> 220, h |-> 140]

OwnerRects == {Roomy, [w |-> 219, h |-> 140], [w |-> 220, h |-> 139]}

\* nothing found out yet
NoOwner ==
    [isWindow |-> FALSE, rcOk |-> FALSE, rc |-> Roomy, created |-> FALSE,
     nowOk |-> FALSE, nowRc |-> Roomy]

ProcStart(args) ==
    [args |-> args, mode |-> NUL, argH |-> 0, calls |-> <<>>, dialogs |-> <<>>,
     owner |-> NoOwner, ret |-> 0, exit |-> 0]

\* proc once wWinMain has parsed the command line and called the function
\* of mode m
Called(v, p, m) ==
    LET a == ParseArgs(p.args)
    IN  [p EXCEPT !.mode = a.mode, !.argH = a.hwnd, !.calls = Append(@, ModeFunction(v, m))]

\* wWinMain calls the function of mode m
Enter(m) ==
    /\ runMode' = m
    /\ proc' = Called(variant, proc, m)
    /\ pc' = IF m = "settings" THEN "args" ELSE "enum"
    /\ g_running' = IF m = "full" THEN TRUE ELSE g_running
    /\ UNCHANGED <<variant, dpi, g_starCount, g_speed, g_twinklePercent, g_color, uiVars,
                   envVars, loopVars, clock, msg, quitPosted, g_startCounter, g_startMouse,
                   g_startMouseInit, g_windows, pv_rw, monitorsLeft>>

\* a wWinMain whose settings branch lacks its return and runs on into the
\* default branch
wWinMainNoReturn ==
    \/ pc = "args" /\ runMode = "none" /\ Enter(ModeOf(ParseArgs(proc.args)))
    \/ pc = "done" /\ runMode = "settings" /\ Enter("full")

\* wWinMain from ParseArgs to the call of the mode's function
wWinMain == pc = "args" /\ runMode = "none" /\ Enter(ModeOf(ParseArgs(proc.args)))

minW == 220

minH == 140

\* RunSettingsForcePopup(): DialogBoxParamW without an owner
ForcePopup(shown) == <<Attempt("DialogBoxParamW", shown)>>

\* an IsRectTooSmall that wants both sides too short
IsRectTooSmallBoth(rc) == rc.w < minW /\ rc.h < minH

IsRectTooSmall(rc) == rc.w < minW \/ rc.h < minH

\* What RunSettingsSmart can find out about its owner.  isWindow:
\* IsWindow(owner); rcOk, rc: the first GetClientRect; created:
\* CreateDialogParamW; nowOk, nowRc: the second GetClientRect, whose result
\* is not tested, so that nowRc is the client area if nowOk and whatever the
\* stack held if not.  What is not asked is left as in NoOwner.
OwnerFindings(argH) ==
    {o \in [isWindow : BOOLEAN, rcOk : BOOLEAN, rc : OwnerRects, created : BOOLEAN,
            nowOk : BOOLEAN, nowRc : OwnerRects] :
       /\ o.isWindow => argH # 0
       /\ o.rcOk => o.isWindow
       /\ o.rc # Roomy => o.rcOk
       /\ o.created => o.rcOk /\ ~IsRectTooSmall(o.rc)
       /\ o.nowOk => o.created
       /\ o.nowRc # Roomy => o.created}

\* everything that can be found out about an owner that is not NULL
Findings == OwnerFindings(1)

\* the dialogs RunSettingsSmart tries on the findings o; shown: whether
\* DialogBoxParamW brings the popup up
SmartDialogs(o, shown) ==
    IF ~o.isWindow THEN <<Attempt("DialogBoxParamW", shown)>>
    ELSE IF ~o.rcOk THEN ForcePopup(shown)
    ELSE IF IsRectTooSmall(o.rc) THEN ForcePopup(shown)
    ELSE IF ~o.created THEN <<Attempt("CreateDialogParamW", FALSE)>> \o ForcePopup(shown)
    ELSE IF IsRectTooSmall(o.nowRc)
         THEN <<Attempt("CreateDialogParamW", TRUE), Attempt("DestroyWindow", TRUE)>>
              \o ForcePopup(shown)
    ELSE <<Attempt("CreateDialogParamW", TRUE)>>

\* a dialog is up after the attempts ds
DialogUp(ds) == ds # <<>> /\ ds[Len(ds)].shown

\* mode 'c' of the resource-dialog variant: RunSettingsSmart(argH) up to the
\* dialog's first message, or to its return of -1
RunSettingsSmart(o, shown) ==
    /\ pc = "args"
    /\ runMode = "settings"
    /\ variant = "res"
    /\ proc.dialogs = <<>>
    /\ o \in OwnerFindings(proc.argH)
    /\ LET ds == SmartDialogs(o, shown)
       IN  /\ proc' = [proc EXCEPT !.dialogs = ds, !.owner = o,
                                   !.ret = IF DialogUp(ds) THEN @ ELSE -1]
           /\ dlg' = IF DialogUp(ds) THEN SettingsControls ELSE dlg
           /\ pc' = IF DialogUp(ds) THEN "dialog" ELSE "retry"
    /\ UNCHANGED <<cfgVars, registry, envVars, loopVars, inputVars, clock, msg, g_windows,
                   pv_rw, monitorsLeft>>

\* wWinMain: if (r == -1) RunSettingsForcePopup();
RunSettingsForcePopup(shown) ==
    /\ pc = "retry"
    /\ proc' = [proc EXCEPT !.calls = Append(@, "RunSettingsForcePopup"),
                            !.dialogs = @ \o ForcePopup(shown),
                            !.ret = IF shown THEN 0 ELSE -1]
    /\ dlg' = IF shown THEN SettingsControls ELSE dlg
    /\ pc' = IF shown THEN "dialog" ELSE "done"
    /\ UNCHANGED <<cfgVars, registry, envVars, loopVars, inputVars, clock, msg, g_windows,
                   pv_rw, monitorsLeft>>

\* the owner of the embedded dialog is destroyed, and the dialog with it:
\* IsWindow fails and RunSettingsSmart leaves its loop and returns 0
OwnerDestroyed ==
    /\ pc = "dialog"
    /\ variant = "res"
    /\ Embedded
    /\ dlg' = [dlg EXCEPT !.open = FALSE]
    /\ pc' = "done"
    /\ UNCHANGED <<cfgVars, registry, envVars, loopVars, inputVars, clock, msg, g_windows,
                   pv_rw, monitorsLeft, proc>>

\* an exit code that hands on what the mode's function returned
ExitCodeOfResult(r) == r

\* the value of every return statement of wWinMain
ExitCode(r) == 0

\* wWinMain returns
Return ==
    /\ pc = "done"
    /\ pc' = "exited"
    /\ proc' = [proc EXCEPT !.exit = ExitCode(proc.ret)]
    /\ UNCHANGED <<cfgVars, uiVars, envVars, loopVars, inputVars, clock, msg, g_windows,
                   pv_rw, monitorsLeft>>

(***************************************************************************)
(* Specification Spec: the star simulation and its drawing targets, in     *)
(* full-screen and in preview mode, the pointer at rest.                   *)
(***************************************************************************)
White == [r |-> 255, g |-> 255, b |-> 255]

Ivory == [r |-> 255, g |-> 255, b |-> 240]

\* what wWinMain has set up when RunFull or RunPreview is entered
InitProcess ==
    /\ pc = "enum"
    /\ ri = 1
    /\ clock = 0
    /\ last = 0
    /\ dt = 0
    /\ total = 0
    /\ msg = [message |-> "WM_NULL", pt |-> Origin]
    /\ g_running = TRUE
    /\ quitPosted = FALSE
    /\ g_startCounter = 0
    /\ g_startMouse = Origin
    /\ g_startMouseInit = FALSE
    /\ g_windows = <<>>
    /\ pv_rw = NULL
    /\ monitorsLeft = MaxMonitors
    /\ registry = [n \in AllRegNames |-> Absent]
    /\ dlg = NoDialog

Init ==
    /\ InitProcess
    /\ variant \in Variants
    /\ runMode \in {"full", "preview"}
    /\ proc = Called(variant, ProcStart(IF runMode = "full" THEN <<>>
                                        ELSE <<<<"/", "p">>, <<"1">>>>), runMode)
    /\ cursor = Origin
    /\ fgOurs = TRUE
    /\ dpi \in IF variant = "clamp" THEN {96, 144} ELSE {96}
    /\ g_starCount \in 1 .. MaxStars
    /\ g_speed = 60
    /\ g_twinklePercent \in IF variant = "gdi" THEN {0} ELSE {0, 30}
    /\ g_color = IF variant = "gdi" THEN White ELSE Ivory

Next ==
    \/ \E made \in BOOLEAN, sz \in Sizes, seed \in Seeds, res \in CreateResults(variant) :
          MonEnumProc(made, sz, seed, res)
    \/ RunFull
    \/ \E parentOk \in BOOLEAN, childOk \in BOOLEAN, sz \in Sizes, seed \in Seeds,
          res \in CreateResults(variant) :
          RunPreview(parentOk, childOk, sz, seed, res)
    \/ \E c \in ClockSamples(variant) : Tick(c)
    \/ DispatchInput("WM_KEYDOWN")
    \/ \E i \in 1 .. MaxMonitors, sz \in Sizes, res \in CreateResults(variant) :
          WmSize(i, sz, res)
    \/ \E sz \in Sizes : PreviewResize(sz)
    \/ PreviewClosed
    \/ RetrieveQuit
    \/ PeekEmpty
    \/ \E hr \in EndDrawResults(variant), ok \in BOOLEAN : RenderFrameStep(hr, ok)
    \/ EndIteration
    \/ Cleanup

Spec == Init /\ [][Next]_vars

(***************************************************************************)
(* Properties of the simulation and of the drawing targets (Spec).         *)
(***************************************************************************)
SurfaceIds == 1 .. Len(Surfaces)

StarIds(k) == 1 .. Len(Surfaces[k].stars)

\* C1: in every variant every star's depth satisfies near <= z < far after
\* InitStars and after every RenderFrame, and a star respawned in a frame
\* got a depth strictly above near and at most far.
C1_DepthInBand ==
    \A k \in SurfaceIds : \A i \in StarIds(k) :
        /\ near(variant) <= Surfaces[k].stars[i].z
        /\ Surfaces[k].stars[i].z < far(variant)
        /\ i \in Surfaces[k].frame.respawned =>
              /\ Surfaces[k].stars[i].z > near(variant)
              /\ Surfaces[k].stars[i].z <= far(variant)

\* C2: the number of stars a surface owns equals the configured star count
\* after InitStars, whatever frames, respawns, resizes and target
\* recreations follow.
C2_StarCountConstant ==
    \A k \in SurfaceIds : Len(Surfaces[k].stars) = g_starCount

\* a frame that respawned a star was drawn into a render target created
\* after an earlier frame (a resize or a recreation released the first
\* target and left its brush behind), and the surface still has its stars
C2_RespawnAfterRecreation ==
    /\ runMode = "full"
    /\ D2D(variant)
    /\ \E k \in SurfaceIds :
          /\ Surfaces[k].frame.drew
          /\ Surfaces[k].frame.respawned # {}
          /\ Surfaces[k].brush = Brush("stale")
          /\ Len(Surfaces[k].stars) = g_starCount

\* C6: at every RenderFrame that draws, the backbuffer / render target has
\* the size of the window's client rectangle at that moment, on full-screen
\* and on preview surfaces.
C6_TargetMatchesClient ==
    \A k \in SurfaceIds :
        Surfaces[k].frame.drew =>
            /\ Surfaces[k].frame.size.w = Surfaces[k].frame.client.w
            /\ Surfaces[k].frame.size.h = Surfaces[k].frame.client.h

\* C7: after a lost render target, recreation is attempted again on the
\* following frames: a RenderFrame call on a Direct2D surface without a
\* render target, at a moment when creation succeeds, leaves it with one.
C7_RetryOnNextFrame ==
    [][\A hr \in {"S_OK", "D2DERR_RECREATE_TARGET"} :
          (/\ D2D(variant)
           /\ ri <= Len(Surfaces)
           /\ Surfaces[ri].rt = NULL
           /\ Surfaces[ri].factory
           /\ RenderFrameStep(hr, TRUE))
          => Surfaces'[ri].rt # NULL]_vars

\* the largest size the resource-dialog variant can draw: 2.5 / near
PszResMax == (2500 * ZDen) \div NearD2D

\* C8: every size passed to the ellipse call lies in the variant's range:
\* gdi 1..128 px, clamp variant g_starMin..g_starMax, resource-dialog
\* variant 1.0 up to a finite maximum.
C8_SizeInRange ==
    \A k \in SurfaceIds : \A d \in 1 .. Len(Surfaces[k].frame.draws) :
        LET psz == Surfaces[k].frame.draws[d].psz
        IN  CASE variant = "gdi" -> 1 <= psz /\ psz <= 128
              [] variant = "clamp" -> g_starMin <= psz /\ psz <= g_starMax
              [] variant = "res" -> 1000 <= psz /\ psz <= PszResMax

\* C9: every colour channel handed to the drawing API is in the display
\* range: 0..255 in the gdi variant, 0.0..1.0 in the Direct2D variants.
C9_ChannelsInRange ==
    \A k \in SurfaceIds : \A d \in 1 .. Len(Surfaces[k].frame.draws) :
        LET c == Surfaces[k].frame.draws[d]
            top == IF variant = "gdi" THEN 255 ELSE 1000
        IN  /\ 0 <= c.r /\ c.r <= top
            /\ 0 <= c.g /\ c.g <= top
            /\ 0 <= c.b /\ c.b <= top

\* the viewport of the last frame of rw: w x h of the client rectangle
\* (gdi) or of the render target in DIPs (Direct2D)
Viewport(rw) ==
    IF variant = "gdi"
    THEN [w |-> max(1, rw.rc.right - rw.rc.left), h |-> max(1, rw.rc.bottom - rw.rc.top)]
    ELSE [w |-> (rw.frame.size.w * 96) \div dpi, h |-> (rw.frame.size.h * 96) \div dpi]

\* the square of half-width psz / unit around (px, py) has no point in the
\* viewport 0 .. w, 0 .. h
BoxOutside(px, py, psz, unit, w, h) ==
    \/ px * unit + psz < 0
    \/ px * unit - psz > w * unit
    \/ py * unit + psz < 0
    \/ py * unit - psz > h * unit

\* whether star s of rw, as the last frame left it, projects to a square
\* outside rw's viewport
StarOutside(rw, s) ==
    IF variant = "gdi"
    THEN BoxOutside(ProjGdi(Viewport(rw).w \div 2, s.x, s.z),
                    ProjGdi(Viewport(rw).h \div 2, s.y, s.z),
                    PszGdi(s.z), 1, Viewport(rw).w, Viewport(rw).h)
    ELSE BoxOutside(ProjD2D(Viewport(rw).w \div 2, s.x, s.z),
                    ProjD2D(Viewport(rw).h \div 2, s.y, s.z),
                    PszD2D(variant, s, dpi), 1000, Viewport(rw).w, Viewport(rw).h)

\* the ellipse calls of rw's last frame that drew star i
CallsFor(rw, i) == {d \in 1 .. Len(rw.frame.draws) : rw.frame.draws[d].star = i}

\* C17: in a frame that drew, a star whose projected square lies entirely
\* outside the viewport got no ellipse call and every other star got
\* exactly one (looked at while the loop is still in the frame that
\* rendered surface k).
C17_OffscreenSkipped ==
    pc = "render" =>
        \A k \in 1 .. min(ri - 1, Len(Surfaces)) :
            Surfaces[k].frame.drew =>
                \A i \in StarIds(k) :
                    Cardinality(CallsFor(Surfaces[k], i)) =
                        IF StarOutside(Surfaces[k], Surfaces[k].stars[i]) THEN 0 ELSE 1

\* the stars InitStars can put into a surface of client size w x h, over
\* every state of the generator
InitValues(w, h) == {InitStar(variant, r, w, h) : r \in 0 .. RngPeriod - 1}

\* the stars the respawn branch of RenderFrame can assign on that surface
RespawnValues(w, h) == {RespawnStar(variant, r, w, h) : r \in 0 .. RngPeriod - 1}

\* C18: a respawned star is resampled exactly as in InitStars: on every
\* surface the set of stars a respawn can assign is the set InitStars can
\* assign, for the same configuration and window size.
C18_RespawnAsInit ==
    \A k \in SurfaceIds :
        RespawnValues(max(1, Surfaces[k].rc.right - Surfaces[k].rc.left),
                      max(1, Surfaces[k].rc.bottom - Surfaces[k].rc.top))
        = InitValues(max(1, Surfaces[k].rc.right - Surfaces[k].rc.left),
                     max(1, Surfaces[k].rc.bottom - Surfaces[k].rc.top))

\* rw holds exactly what a run of InitStars from generator state seed
\* gives for rw's rectangle under the current configuration
InitStarsFrom(rw, seed) ==
    /\ rw.stars = InitStars(variant, [rw EXCEPT !.rng = seed]).stars
    /\ rw.rng = InitStars(variant, [rw EXCEPT !.rng = seed]).rng

\* surface k still is as InitStars left it: no frame has run on it and its
\* rectangle has not changed (the loop has not started, or the clock has
\* not moved and nothing was drawn)
Fresh(k) ==
    /\ Surfaces[k].frame = NoFrame
    /\ \/ pc = "enum"
       \/ runMode = "preview" /\ pc = "peek" /\ clock = 0

Held(rw) ==
    (IF rw.backHdc # NULL THEN {"backHdc", "backBmp"} ELSE {})
       \cup (IF rw.rt # NULL THEN {"rt"} ELSE {})
       \cup (IF rw.brush # NULL THEN {"brush"} ELSE {})

\* the release of rw's drawing target
Release(rw) == IF variant = "gdi" THEN DestroyBackbuffer(rw) ELSE ReleaseRT(rw)

\* C16: for every surface, whatever was acquired, resized and released so
\* far: releasing twice gives what releasing once gives; after a release no
\* drawing handle of the surface but the brush is live; no handle was freed
\* while not live; no handle was made that the surface does not hold (and so can
\* never free); and the handles the surface holds are exactly the live ones
\* (none is used after it was freed).
C16_ReleaseIdempotent ==
    \A k \in DOMAIN Surfaces :
       LET rw == Surfaces[k]
       IN  /\ Release(Release(rw)) = Release(rw)
           /\ Release(rw).ledger.live \subseteq {"brush"}
           /\ ~Release(rw).ledger.fault
           /\ ~rw.ledger.lost
           /\ rw.ledger.live = Held(rw)

\* C21: once the continuation condition of the frame loop is false
\* (g_running cleared in RunFull, the child destroyed in RunPreview), no
\* step is a RenderFrame call.
C21_NoFrameAfterStop ==
    [][(pc \in {"peek", "render"} /\ Surfaces # <<>> /\ ~LoopCondition) =>
          ~(pc = "render" /\ ri' = ri + 1)]_vars

\* C22: the step that ends RunFull or RunPreview leaves g_windows empty and
\* no preview surface, and for every surface of the run the tear-down
\* leaves no drawing handle live, has freed none that was not live, and no
\* handle made for the surface went without being freed; a MonEnumProc call
\* adds at most one surface, and only one that has its window.
C22_AllFreedAtReturn ==
    [][/\ (pc = "cleanup" /\ pc' = "done") =>
             /\ g_windows' = <<>>
             /\ pv_rw' = NULL
             /\ \A k \in DOMAIN Surfaces :
                   LET t == Teardown(variant, Surfaces[k])
                   IN  /\ t.ledger = NoHandles
                       /\ t.hwnd = NULL
       /\ monitorsLeft' # monitorsLeft =>
             \/ g_windows' = g_windows
             \/ /\ Len(g_windows') = Len(g_windows) + 1
                /\ SubSeq(g_windows', 1, Len(g_windows)) = g_windows
                /\ g_windows'[Len(g_windows')].hwnd # NULL]_vars

\* the size RenderFrame draws a star of depth z and brightness base with
DrawnSize(v, z, base, dpiX) ==
    IF v = "gdi" THEN PszGdi(z) ELSE PszD2D(v, [z |-> z, base |-> base], dpiX)

\* depths across the band of variant v, and the two ends of what ub draws
DepthSamples(v) ==
    {near(v) + 1, near(v) + (far(v) - near(v)) \div 4, (near(v) + far(v)) \div 2,
     (far(v) \div 10) * 6, far(v) - 1}

BaseSamples == {600, 1000}

\* C23: of two stars drawn in one frame the one with the smaller depth is
\* drawn at least as large as the other; and for the size computation the
\* frames use, of two stars (whatever their brightness) the one with the
\* smaller depth gets at least the size of the other, and a star one unit
\* of depth above the near bound gets a strictly larger size than a star
\* one unit below the far bound.
C23_SizeFollowsDepth ==
    /\ \A k \in SurfaceIds :
          LET rw == Surfaces[k]
          IN  \A d1, d2 \in 1 .. Len(rw.frame.draws) :
                 LET c1 == rw.frame.draws[d1]
                     c2 == rw.frame.draws[d2]
                 IN  rw.stars[c1.star].z < rw.stars[c2.star].z => c1.psz >= c2.psz
    /\ (\E k \in SurfaceIds : Surfaces[k].frame.drew) =>
          /\ \A z1, z2 \in DepthSamples(variant), b1, b2 \in BaseSamples :
                z1 < z2 => DrawnSize(variant, z1, b1, dpi) >= DrawnSize(variant, z2, b2, dpi)
          /\ \A base \in BaseSamples :
                DrawnSize(variant, near(variant) + 1, base, dpi)
                   > DrawnSize(variant, far(variant) - 1, base, dpi)

\* C24: in the Direct2D variants no ellipse call of a frame uses a brush
\* made by a render target that has been released, and a surface never
\* holds such a brush.
C24_BrushOfCurrentTarget ==
    D2D(variant) =>
       \A k \in SurfaceIds :
          /\ Surfaces[k].brush # Brush("stale")
          /\ \A d \in 1 .. Len(Surfaces[k].frame.draws) :
                Surfaces[k].frame.draws[d].brush # Brush("stale")


\* C30: in the GDI variant no call of CreateBackbuffer has returned with a
\* GDI object it acquired still unreleased, and a surface whose
\* CreateBackbuffer failed holds no backbuffer: no memory DC and no bitmap
\* are live for it, and a RenderFrame on it draws nothing.
C30_FailedBackbufferReleased ==
    variant = "gdi" =>
       \A k \in SurfaceIds :
          /\ ~Surfaces[k].ledger.lost
          /\ Surfaces[k].backHdc = NULL =>
                /\ Surfaces[k].ledger.live = {}
                /\ RenderFrame(variant, Surfaces[k], dt, total, dpi, "S_OK", TRUE).frame = NoFrame

(***************************************************************************)
(* Specification SpecInput: the input gate of the full-screen loop.  One   *)
(* monitor, default settings; the user moves the pointer, presses keys     *)
(* and buttons, the foreground window changes owner, the window is         *)
(* shrunk, time passes.                                                    *)
(***************************************************************************)
InitInput ==
    /\ InitProcess
    /\ variant \in Variants
    /\ runMode = "full"
    /\ proc = Called(variant, ProcStart(<<>>), runMode)
    /\ cursor = Origin
    /\ fgOurs \in BOOLEAN
    /\ dpi = 96
    /\ g_starCount = 1
    /\ g_speed = 60
    /\ g_twinklePercent = IF variant = "gdi" THEN 0 ELSE 30
    /\ g_color = IF variant = "gdi" THEN White ELSE Ivory

NextInput ==
    \/ MonEnumProc(TRUE, Desktop, 0, "ok")
    \/ RunFull
    \/ \E c \in {DebounceTicks(variant) - 1, DebounceTicks(variant)} : Tick(c)
    \/ \E p \in Points : MoveCursor(p)
    \/ \E b \in BOOLEAN : SetForeground(b)
    \/ \E m \in InputMessages : DispatchInput(m)
    \/ WmSize(1, Shrunk, "ok")
    \/ RetrieveQuit
    \/ PeekEmpty
    \/ RenderFrameStep("S_OK", TRUE)
    \/ EndIteration
    \/ Cleanup

SpecInput == InitInput /\ [][NextInput]_vars

(***************************************************************************)
(* Properties of the input gate (SpecInput).                               *)
(***************************************************************************)
\* the counter is still inside the variant's debounce interval, counted
\* from g_startCounter: 0.66 s (gdi) or 2.5 s (Direct2D)
InsideDebounce ==
    IF variant = "gdi"
    THEN (clock - g_startCounter) * 100 < 66 * PerfFreq
    ELSE (clock - g_startCounter) * 10 < 25 * PerfFreq

\* C3: no input message handled before the debounce interval has elapsed
\* clears g_running or posts the quit message, in every variant.
C3_DebounceShields ==
    [][\A m \in InputMessages :
          (InsideDebounce /\ DispatchInput(m)) => UNCHANGED <<g_running, quitPosted>>]_vars

\* a mouse move of 5 pixels was handled on the last tick of the debounce
\* interval and the loop is still running
C3_JitterInsideDebounce ==
    /\ pc = "peek"
    /\ msg = [message |-> "WM_MOUSEMOVE", pt |-> [x |-> 5, y |-> 0]]
    /\ clock = DebounceTicks(variant) - 1
    /\ InsideDebounce
    /\ g_running
    /\ ~quitPosted

\* p is d pixels or more away from q, in x or in y
Away(p, q, d) == abs(p.x - q.x) >= d \/ abs(p.y - q.y) >= d

\* C4: an input message clears g_running only if the debounce interval has
\* elapsed, the foreground window is the screensaver's own and, for a mouse
\* move, the cursor is 12 px or more (in x or y) from the baseline.
C4_ExitOnlyWhenDeliberate ==
    [][\A m \in InputMessages :
          (g_running /\ DispatchInput(m) /\ ~g_running') =>
              /\ ~InsideDebounce
              /\ fgOurs
              /\ m = "WM_MOUSEMOVE" => Away(cursor, g_startMouse, 12)]_vars

\* C5 as stated: a mouse move handled after the debounce interval, with the
\* screensaver in the foreground and the cursor 20 px from where it was at
\* start (the origin), clears g_running and posts the quit message whatever
\* was handled before.
C5_FarMoveExitsAlways ==
    [][(/\ ~InsideDebounce
        /\ fgOurs
        /\ Away(cursor, Origin, 20)
        /\ DispatchInput("WM_MOUSEMOVE"))
       => (~g_running' /\ quitPosted')]_vars

\* C5, amended: the same, measured from the recorded baseline g_startMouse
\* and with that baseline valid (g_startMouseInit, i.e. no WM_SIZE since it
\* was recorded) in the variants that keep one; and once g_running is
\* cleared it stays cleared and the iteration's end leaves the loop.
C5_FarMoveExits ==
    [][/\ (/\ ~InsideDebounce
           /\ fgOurs
           /\ variant # "res" => (g_startMouseInit /\ Away(cursor, g_startMouse, 20))
           /\ DispatchInput("WM_MOUSEMOVE"))
          => (~g_running' /\ quitPosted')
       /\ ~g_running => ~g_running'
       /\ (~g_running /\ EndIteration) => pc' = "cleanup"]_vars

\* the loop was left after a mouse move to 20 px from the baseline recorded
\* at start
C5_ExitedByFarMove ==
    /\ pc = "done"
    /\ msg.message = "WM_QUIT"
    /\ ~g_running
    /\ cursor = [x |-> 20, y |-> 0]
    /\ g_startMouse = Origin
    /\ g_startMouseInit
    /\ fgOurs

(***************************************************************************)
(* Specification SpecSettings: mode 'c', from the start of wWinMain to the *)
(* closing of the settings window.                                         *)
(***************************************************************************)
Custom == [r |-> 10, g |-> 20, b |-> 30]

\* what the edit controls are made to hold
Texts == {<<>>, <<" ", "7", "x">>, <<"7", "0", "0", "0">>, <<"x">>,
          <<"3", "0", "0", "0", "0", "0", "0", "0", "0", "0">>,
          <<"4", "2", "9", "4", "9", "6", "7", "2", "9", "6">>}

\* 3000000000 as a DWORD, seen as an int
BigDword == (3000 - 4294) * 1000000 - 967296

\* what the registry holds when the program starts
RegistrySamples(v) ==
    {[n \in AllRegNames |->
         CASE n = "REG_STARS" -> st
           [] n = "REG_SPEED" -> sp
           [] n = "REG_TWINKLE" -> IF extra = "all" THEN Stored(250) ELSE Absent
           [] n = "REG_COLOR_R" -> IF extra = "none" THEN Absent ELSE Stored(Custom.r)
           [] n = "REG_COLOR_G" -> IF extra = "none" THEN Absent ELSE Stored(Custom.g)
           [] n = "REG_COLOR_B" -> IF extra = "none" THEN Absent ELSE Stored(Custom.b)] :
       st \in {Absent, Stored(5), Stored(BigDword)},
       sp \in {Absent, Stored(7000)},
       extra \in IF v = "gdi" THEN {"none"} ELSE {"none", "color", "all"}}

\* the outcomes of SaveSettings: every value written, none, only the first
WriteOutcomes(v) == {RegNames(v), {}, {"REG_STARS"}}

InitSettings ==
    /\ variant \in Variants
    /\ runMode = "settings"
    /\ pc = "main"
    /\ ri = 1
    /\ clock = 0
    /\ last = 0
    /\ dt = 0
    /\ total = 0
    /\ msg = [message |-> "WM_NULL", pt |-> Origin]
    /\ g_running = TRUE
    /\ quitPosted = FALSE
    /\ g_startCounter = 0
    /\ g_startMouse = Origin
    /\ g_startMouseInit = FALSE
    /\ cursor = Origin
    /\ fgOurs = TRUE
    /\ dpi = 96
    /\ g_windows = <<>>
    /\ pv_rw = NULL
    /\ monitorsLeft = MaxMonitors
    /\ g_starCount = 600
    /\ g_speed = 60
    /\ g_twinklePercent = 30
    /\ g_color = IF variant = "gdi" THEN White ELSE Ivory
    /\ registry \in RegistrySamples(variant)
    /\ dlg = NoDialog
    /\ proc = ProcStart(<<<<"/", "c">>>>)

NextSettings ==
    \/ LoadSettings
    \/ \E created \in BOOLEAN : ShowSettings(created)
    \/ \E f \in {"stars", "speed", "twinkle"}, t \in Texts : EditField(f, t)
    \/ \E k \in 0 .. 3 : SelectPreset(k)
    \/ PickColor(Custom)
    \/ \E written \in WriteOutcomes(variant) : PressOK(written)
    \/ PressCancel

SpecSettings == InitSettings /\ [][NextSettings]_vars

(***************************************************************************)
(* Properties of the settings window (SpecSettings).                       *)
(***************************************************************************)
\* x brought into lo .. hi
Nearest(lo, hi, x) == IF x < lo THEN lo ELSE IF x > hi THEN hi ELSE x

\* texts no number can be read from: nothing, a letter, a number above 2^32 - 1
Unparsable(t) ==
    t \in {<<>>, <<"x">>, <<"4", "2", "9", "4", "9", "6", "7", "2", "9", "6">>}

\* the configuration in memory is inside the valid ranges
SettingsInRange ==
    /\ g_starCount \in 10 .. 5000
    /\ g_speed \in 10 .. 300
    /\ variant # "gdi" => g_twinklePercent \in 0 .. 100

\* every value the last SaveSettings wrote is inside its valid range
SavedInRange ==
    \A n \in dlg.saved :
        /\ registry[n].set
        /\ n = "REG_STARS" => registry[n].val \in 10 .. 5000
        /\ n = "REG_SPEED" => registry[n].val \in 10 .. 300
        /\ n = "REG_TWINKLE" => registry[n].val \in 0 .. 100

\* C10: after OK the configuration in memory and the values written to the
\* registry are in range (stars 10..5000, speed 10..300, twinkle 0..100)
\* whatever the edit controls hold, and a field that cannot be parsed
\* yields the setting's current value, clamped.
C10_OkClamps ==
    [][(pc = "dialog" /\ dlg'.result = "ok") =>
          /\ SettingsInRange'
          /\ SavedInRange'
          /\ Unparsable(dlg.stars) => g_starCount' = Nearest(10, 5000, g_starCount)
          /\ Unparsable(dlg.speed) => g_speed' = Nearest(10, 300, g_speed)
          /\ (variant # "gdi" /\ Unparsable(dlg.twinkle)) =>
                g_twinklePercent' = Nearest(0, 100, g_twinklePercent)]_vars

\* OK was pressed with a letter in the star count field while the setting
\* loaded from the registry was below the range, and 7000 in the speed
\* field; everything was written
C10_ClampedAfterOk ==
    /\ pc = "done"
    /\ dlg.result = "ok"
    /\ dlg.stars = <<"x">>
    /\ g_starCount = 10
    /\ dlg.speed = <<"7", "0", "0", "0">>
    /\ g_speed = 300
    /\ dlg.saved = RegNames(variant)
    /\ registry["REG_STARS"] = Stored(10)
    /\ registry["REG_SPEED"] = Stored(300)

\* C11: on OK the registry goes from the complete old set of values to
\* the complete new set as one unit: after SaveSettings it holds either
\* every value of the new configuration or exactly what it held before.
C11_SaveAllOrNothing ==
    [][(pc = "dialog" /\ dlg'.result = "ok") =>
          \/ registry' = registry
          \/ \A n \in RegNames(variant) :
                registry'[n] = Stored(SavedValue(n, OkValues))]_vars

\* the configuration the settings window was opened with: what LoadSettings
\* made of the registry and the built-in defaults
ConfigAtOpen ==
    [stars |-> GetRegDWORD("REG_STARS", 600),
     speed |-> GetRegDWORD("REG_SPEED", 60),
     twinkle |-> IF variant = "gdi" THEN 30 ELSE GetRegDWORD("REG_TWINKLE", 30),
     color |-> IF variant = "gdi" THEN White
               ELSE RGB(GetRegDWORD("REG_COLOR_R", Ivory.r),
                        GetRegDWORD("REG_COLOR_G", Ivory.g),
                        GetRegDWORD("REG_COLOR_B", Ivory.b))]

\* the configuration in memory
ConfigNow ==
    [stars |-> g_starCount, speed |-> g_speed, twinkle |-> g_twinklePercent,
     color |-> g_color]

\* C12: Cancel leaves the configuration unchanged: nothing but OK writes the
\* registry, and when the window has been closed by Cancel the
\* configuration in memory is the one the window was opened with, whatever
\* edits, selections and colour picks came before.
C12_CancelKeepsConfig ==
    [][/\ dlg'.result # "ok" => registry' = registry
       /\ dlg'.result = "cancel" => ConfigNow' = ConfigAtOpen']_vars


\* the configuration LoadSettings makes of the registry and the defaults
AsLoaded ==
    [stars |-> GetRegDWORD("REG_STARS", 600),
     speed |-> GetRegDWORD("REG_SPEED", 60),
     twinkle |-> IF variant = "gdi" THEN 30 ELSE GetRegDWORD("REG_TWINKLE", 30),
     color |-> IF variant = "gdi" THEN White
               ELSE RGB(GetRegDWORD("REG_COLOR_R", Ivory.r), GetRegDWORD("REG_COLOR_G", Ivory.g),
                        GetRegDWORD("REG_COLOR_B", Ivory.b))]

\* the settings window is up as it was opened on the loaded configuration:
\* no control has been changed and no colour has been picked
Untouched ==
    /\ pc = "dialog"
    /\ dlg = SettingsControls
    /\ ConfigNow = AsLoaded

\* C27: OK pressed in a settings window no control of which was touched,
\* opened on a configuration inside the valid ranges (whatever its colour,
\* preset or not), changes nothing: the configuration in memory after OK is
\* the one before, and every registry value is what it was or has been
\* written with the unchanged configuration's value.
C27_UntouchedOkIsNoOp ==
    [][(Untouched /\ SettingsInRange /\ dlg'.result = "ok") =>
          /\ ConfigNow' = ConfigNow
          /\ \A n \in RegNames(variant) :
                registry'[n] \in {registry[n], Stored(SavedValue(n, ConfigNow))}]_vars


\* the colour picker has given g_color a colour other than the loaded one
Picked ==
    /\ pc = "dialog"
    /\ dlg.open
    /\ g_color # AsLoaded.color

\* C28: in the resource-dialog variant, OK pressed after the colour picker
\* has set a colour keeps that colour, whatever the combo box has selected:
\* g_color after OK is the picked colour, and the colour components
\* SaveSettings wrote to the registry are its components.
C28_PickedColourKept ==
    [][(variant = "res" /\ Picked /\ dlg'.result = "ok") =>
          /\ g_color' = g_color
          /\ \A n \in dlg'.saved \cap {"REG_COLOR_R", "REG_COLOR_G", "REG_COLOR_B"} :
                registry'[n] = Stored(SavedValue(n, ConfigNow))]_vars

(***************************************************************************)
(* Specification SpecMain: one launch of the program, from the entry of    *)
(* wWinMain to its return, on the command lines below.  The user has set   *)
(* one star; windows get the desktop's size and drawing targets are        *)
(* created without failure.                                                *)
(***************************************************************************)
CommandLines ==
    {<<>>,
     << <<"/", "s">> >>,
     << <<"/", "c">> >>,
     << <<"/", "C">> >>,
     << <<"-", "c">> >>,
     << <<"/", "c", ":", "1", "2">> >>,
     << <<"c">> >>,
     << <<"/">> >>,
     << <<"/", "x">> >>,
     << <<"/", "p">> >>,
     << <<"/", "p">>, <<"0">> >>,
     << <<"/", "p">>, <<"1", "x">> >>,
     << <<"/", "p", ":">> >>,
     << <<"/", "p">>, <<"1", "2">> >>,
     << <<"/", "P">>, <<"7">> >>,
     << <<"-", "p", ":", "0", "1", "0">> >>,
     << <<"/", "p", ":", "0", "x", "1", "F">> >>}

InitMain ==
    /\ variant \in Variants
    /\ runMode = "none"
    /\ pc = "main"
    /\ ri = 1
    /\ clock = 0
    /\ last = 0
    /\ dt = 0
    /\ total = 0
    /\ msg = [message |-> "WM_NULL", pt |-> Origin]
    /\ g_running = TRUE
    /\ quitPosted = FALSE
    /\ g_startCounter = 0
    /\ g_startMouse = Origin
    /\ g_startMouseInit = FALSE
    /\ cursor = Origin
    /\ fgOurs = TRUE
    /\ dpi = 96
    /\ g_windows = <<>>
    /\ pv_rw = NULL
    /\ monitorsLeft = MaxMonitors
    /\ g_starCount = 600
    /\ g_speed = 60
    /\ g_twinklePercent = 30
    /\ g_color = IF variant = "gdi" THEN White ELSE Ivory
    /\ registry = [n \in AllRegNames |-> IF n = "REG_STARS" THEN Stored(1) ELSE Absent]
    /\ dlg = NoDialog
    /\ proc \in {ProcStart(args) : args \in CommandLines}

NextMain ==
    \/ LoadSettings
    \/ wWinMain
    \/ \E created \in BOOLEAN : ShowSettingsModalPopup(created)
    \/ \E o \in Findings, shown \in BOOLEAN : RunSettingsSmart(o, shown)
    \/ \E shown \in BOOLEAN : RunSettingsForcePopup(shown)
    \/ PressOK(RegNames(variant))
    \/ PressCancel
    \/ OwnerDestroyed
    \/ \E made \in BOOLEAN : MonEnumProc(made, Desktop, 0, "ok")
    \/ RunFull
    \/ \E parentOk \in BOOLEAN, childOk \in BOOLEAN :
          RunPreview(parentOk, childOk, Desktop, 0, "ok")
    \/ Tick(MaxClock)
    \/ DispatchInput("WM_KEYDOWN")
    \/ PreviewClosed
    \/ RetrieveQuit
    \/ PeekEmpty
    \/ RenderFrameStep("S_OK", TRUE)
    \/ EndIteration
    \/ Cleanup
    \/ Return

SpecMain == InitMain /\ [][NextMain]_vars

(***************************************************************************)
(* Properties of a launch (SpecMain).                                      *)
(***************************************************************************)
\* the character after the '/' or '-' that opens the first argument
Token(args) ==
    IF args # <<>> /\ Len(args[1]) >= 2 /\ args[1][1] \in {"/", "-"} THEN args[1][2] ELSE NUL

\* the mode a command line asks for
ExpectedMode(args) ==
    IF Token(args) \in {"c", "C"} THEN "settings"
    ELSE IF Token(args) \in {"p", "P"} /\ ParseArgs(args).hwnd # 0 THEN "preview"
    ELSE "full"

\* the mode a function of the program belongs to
ModeOfCall(f) ==
    CASE f \in {"ShowSettingsModalPopup", "RunSettingsSmart", "RunSettingsForcePopup"} ->
            "settings"
      [] f = "RunPreview" -> "preview"
      [] f = "RunFull" -> "full"

\* C14: once wWinMain has chosen, the mode is the one the command line asks
\* for ('c' after '/' or '-' in either case: settings; 'p' with a handle
\* other than 0: preview into that window; anything else: full screen), at
\* least one function was called and every function called belongs to that
\* mode, only that mode's objects exist (monitor windows, at most one per
\* monitor enumerated, in full-screen mode only; the preview surface in
\* preview mode only; the settings window in settings mode only), and
\* wWinMain does not return before it has run a mode.
C14_OneModePerLaunch ==
    /\ runMode # "none" =>
          /\ runMode = ExpectedMode(proc.args)
          /\ proc.calls # <<>>
          /\ \A i \in DOMAIN proc.calls : ModeOfCall(proc.calls[i]) = runMode
          /\ runMode = "preview" => proc.argH = ParseArgs(proc.args).hwnd /\ proc.argH # 0
    /\ runMode # "full" => g_windows = <<>>
    /\ runMode # "preview" => pv_rw = NULL
    /\ runMode # "settings" => dlg = NoDialog /\ proc.dialogs = <<>>
    /\ Len(g_windows) <= MaxMonitors - monitorsLeft
    /\ pc = "exited" => runMode # "none"

\* "/P 7" runs the preview in window 7
C14_PreviewByUpperCaseP ==
    /\ pc = "render"
    /\ runMode = "preview"
    /\ proc.args = << <<"/", "P">>, <<"7">> >>
    /\ proc.argH = 7
    /\ proc.calls = <<"RunPreview">>
    /\ pv_rw # NULL

RanRender == \E i \in DOMAIN proc.calls : proc.calls[i] \in {"RunFull", "RunPreview"}

OpenedSettings == dlg # NoDialog

\* the part of a launch in which surfaces exist or are being made
InRenderLoop == pc \in {"enum", "peek", "render", "cleanup"}

\* C13: no launch both opens the settings window and calls RunFull or
\* RunPreview, in either order; the render loop is only ever entered
\* through RunFull or RunPreview; and no step taken while the render loop
\* runs changes g_starCount, g_speed, g_twinklePercent or g_color.
C13_RenderXorSettings ==
    [][/\ ~(RanRender' /\ OpenedSettings')
       /\ InRenderLoop' => RanRender'
       /\ OpenedSettings => ~InRenderLoop'
       /\ (InRenderLoop \/ InRenderLoop') => ConfigNow' = ConfigNow]_vars

\* a launch in settings mode has saved its values with OK and returned
\* without a render loop
C13_SavedAndExited ==
    /\ pc = "exited"
    /\ dlg.result = "ok"
    /\ ~RanRender
    /\ proc.calls # <<>>

AtLeast220x140(rc) == rc.w >= 220 /\ rc.h >= 140

PopupAttempted == \E i \in DOMAIN proc.dialogs : proc.dialogs[i].call = "DialogBoxParamW"

\* C15: in settings mode of the resource-dialog variant, once
\* RunSettingsSmart has acted, the dialog is embedded only if the owner was
\* a window, GetClientRect gave a client area of at least 220 x 140,
\* CreateDialogParamW succeeded and the client area read after embedding,
\* if it could be read, was still at least 220 x 140; whenever the dialog is
\* not embedded a modal popup (DialogBoxParamW) was attempted; and wWinMain
\* does not return from this mode without an attempt to show a dialog.
C15_EmbedOrPopup ==
    (variant = "res" /\ runMode = "settings" /\ pc \in {"dialog", "retry", "done", "exited"}) =>
       /\ Embedded =>
             /\ proc.argH # 0
             /\ proc.owner.isWindow
             /\ proc.owner.rcOk
             /\ AtLeast220x140(proc.owner.rc)
             /\ proc.owner.created
             /\ proc.owner.nowOk => AtLeast220x140(proc.owner.nowRc)
       /\ ~Embedded => PopupAttempted
       /\ proc.dialogs # <<>>
       /\ pc = "retry" => ~DialogUp(proc.dialogs)

\* the owner shrank while the dialog was being embedded: the embedded
\* dialog was destroyed and the popup is up
C15_PopupAfterEmbedding ==
    /\ variant = "res"
    /\ pc = "dialog"
    /\ dlg.open
    /\ proc.owner.nowOk
    /\ ~AtLeast220x140(proc.owner.nowRc)
    /\ proc.dialogs = <<Attempt("CreateDialogParamW", TRUE), Attempt("DestroyWindow", TRUE),
                        Attempt("DialogBoxParamW", TRUE)>>

\* C20: when wWinMain has returned, in whatever mode and whatever failed on
\* the way, the value it returned is 0.
C20_ExitCodeZero == pc = "exited" => proc.exit = 0

\* wWinMain has returned after the settings function gave it -1
C20_ExitedAfterFailure ==
    /\ pc = "exited"
    /\ runMode = "settings"
    /\ proc.ret = -1
    /\ dlg = NoDialog


\* C25: whenever a render loop runs (surfaces are being made, a frame loop
\* is iterating or is being cleaned up), the configuration LoadSettings
\* produced from the registry is inside the ranges of the settings window:
\* g_starCount in 10..5000, g_speed in 10..300 and, in the Direct2D variants,
\* g_twinklePercent in 0..100; in particular every surface InitStars filled
\* holds between 10 and 5000 stars.
C25_LoadedConfigInRange ==
    InRenderLoop =>
       /\ g_starCount \in 10 .. 5000
       /\ g_speed \in 10 .. 300
       /\ D2D(variant) => g_twinklePercent \in 0 .. 100
       /\ \A k \in SurfaceIds : Len(Surfaces[k].stars) \in 10 .. 5000


\* C26: in the resource-dialog variant, once OK or Cancel has been pressed
\* in the embedded dialog (the one CreateDialogParamW made in the owner),
\* the message loop of RunSettingsSmart has ended: the program is past the
\* dialog, on its way out of wWinMain.
C26_EmbeddedLoopEnds ==
    (variant = "res" /\ Embedded /\ dlg.result # "none") => pc \in {"done", "exited"}


\* C29: whenever the frame loop of RunFull is running, g_windows holds at
\* least one surface with a window, which can get the key, mouse or close
\* message that ends the loop; RunFull does not iterate with g_windows
\* empty.
C29_FullLoopHasWindow ==
    (runMode = "full" /\ pc \in {"peek", "render"} /\ g_running) =>
       \E k \in DOMAIN g_windows : g_windows[k].hwnd # NULL

====
